---- MODULE Spec2Model ----
(***************************************************************************)
(* The line-parsing engine of the story exporter: ParserRegistry           *)
(* (parsers/registry.py), the nine line parsers (parsers/*_parser.py) and  *)
(* DocumentAssembler (parse_text_to_docx.py).                              *)
(*                                                                         *)
(* A line is a sequence of tokens, each token one textual fragment a rule  *)
(* pattern can match; a raw line carries its surrounding whitespace.  The  *)
(* document is the sequence of paragraphs added to it.                     *)
(***************************************************************************)
EXTENDS Integers, Sequences, FiniteSets, TLC

(***************************************************************************)
(* Bounds of the model.                                                    *)
(***************************************************************************)
MaxCalls == 2
MaxLines == 3
MaxRules == 3
MaxRegistryLines == 1

(***************************************************************************)
(* Small helpers on sequences and functions.                               *)
(***************************************************************************)
Last(s) == s[Len(s)]

SeqsUpTo(S, n) == UNION {[1..k -> S] : k \in 0..n}

IsPrefix(s, t) == Len(s) <= Len(t) /\ SubSeq(t, 1, Len(s)) = s

Put(f, k, v) == [x \in (DOMAIN f) \cup {k} |-> IF x = k THEN v ELSE f[x]]

EmptyMap == << >>

(***************************************************************************)
(* Text.  A token is [t, a, b]: t the fragment's shape, a and b its        *)
(* captured strings.                                                       *)
(*   sep    #                                                              *)
(*   tag    [a1]                          a bare bracketed tag             *)
(*   img    [Image(image="a1")]                                            *)
(*   dec    [Decision(options="a", values="b")]   a, b the ;-separated     *)
(*   pred   [Predicate(references="a")]           a the ;-separated refs   *)
(*   scene  <p=1>a1<p=2>b1                                                 *)
(*   sub    [Subtitle(text="a1")]                                          *)
(*   name   [name="a1"]                   well-formed speaker tag          *)
(*   name2  name="a1"]                    speaker tag missing its bracket  *)
(*   snd    [a1(key="b1")], or [a1] when b is empty                        *)
(*   stage  <a1>                                                           *)
(*   quote  "a1"                                                           *)
(*   text   a1                            plain text                       *)
(***************************************************************************)
Tok(t, a, b) == [t |-> t, a |-> a, b |-> b]

\* The characters of a token, as a sequence of strings.
TokText(tok) == <<tok.t>> \o tok.a \o tok.b

RECURSIVE LineText(_)
LineText(line) ==
    IF line = << >> THEN << >> ELSE TokText(Head(line)) \o LineText(Tail(line))

\* str.lower() on the tag names the model uses.
Lower(s) ==
    CASE s = "Dialog" -> "dialog"
      [] s = "DIALOG" -> "dialog"
      [] s = "Charslot" -> "charslot"
      [] s = "Background" -> "background"
      [] s = "PlaySound" -> "playsound"
      [] s = "PlayMusic" -> "playmusic"
      [] s = "StopSound" -> "stopsound"
      [] s = "StopMusic" -> "stopmusic"
      [] s = "Delay" -> "delay"
      [] OTHER -> s

\* str.strip() on the captured strings the model uses: a leading or trailing
\* blank is written as part of the string.
LStripStr(s) ==
    CASE s = " 1" -> "1"
      [] s = " A" -> "A"
      [] s = " i1 " -> "i1 "
      [] s = " i1" -> "i1"
      [] s = " i2 " -> "i2 "
      [] s = " i2" -> "i2"
      [] OTHER -> s

RStripStr(s) ==
    CASE s = "2 " -> "2"
      [] s = " i1 " -> " i1"
      [] s = "i1 " -> "i1"
      [] s = " i2 " -> " i2"
      [] s = "i2 " -> "i2"
      [] OTHER -> s

StripStr(s) == LStripStr(RStripStr(s))

(***************************************************************************)
(* A raw line: the line's tokens and the whitespace around them.           *)
(*   pad = "none"     no surrounding whitespace                            *)
(*   pad = "spaces"   one leading and one trailing blank                   *)
(*   pad = "newline"  a trailing "\n"                                      *)
(***************************************************************************)
Raw(body, pad) == [body |-> body, pad |-> pad]

Pads == {"none", "spaces", "newline"}

\* line.strip(): all leading and trailing whitespace goes.
Strip(raw) == raw.body

\* raw.rstrip('\n'): only trailing newlines go.
RstripNewline(raw) ==
    IF raw.pad = "newline" THEN Raw(raw.body, "none") ELSE raw

\* text.splitlines(): the lines of a text hold no line terminator.
NoNewline(raw) == raw.pad # "newline"

(***************************************************************************)
(* can_parse of the nine parsers, on a stripped, non-empty line.           *)
(***************************************************************************)
Kinds ==
    <<"control", "image", "decision", "predicate", "scene", "subtitle",
      "dialogue", "sound", "narration">>

KindSet == {Kinds[i] : i \in 1..Len(Kinds)}

HasTok(line, T) == \E i \in 1..Len(line) : line[i].t \in T

\* Index of the first token of a shape in T (re.search finds the leftmost match).
FirstTok(line, T) ==
    CHOOSE i \in 1..Len(line) :
        /\ line[i].t \in T
        /\ \A j \in 1..(i - 1) : line[j].t \notin T

\* line.startswith('['), line.startswith('<'), line.endswith('>').
StartsWithBracket(line) ==
    line[1].t \in {"tag", "img", "dec", "pred", "sub", "name", "snd"}

StartsWithAngle(line) == line[1].t \in {"stage", "scene"}

EndsWithAngle(line) == Last(line).t = "stage"

\* any(cmd in line for cmd in names), on the line's captured strings.
ContainsAny(line, names) ==
    \E i \in 1..Len(line) :
        \/ \E j \in 1..Len(line[i].a) : line[i].a[j] \in names
        \/ \E j \in 1..Len(line[i].b) : line[i].b[j] \in names

SoundCommands ==
    {"PlaySound", "PlayMusic", "StopSound", "stopmusic", "StopMusic",
     "playsound", "playmusic"}

ControlTags == {"dialog", "charslot", "background"}

ControlParser_can_parse(line) ==
    \/ line = <<Tok("sep", << >>, << >>)>>
    \/ line[1].t = "tag" /\ Lower(line[1].a[1]) \in ControlTags

ImageParser_can_parse(line) == HasTok(line, {"img"})

DecisionParser_can_parse(line) == HasTok(line, {"dec"})

PredicateParser_can_parse(line) == HasTok(line, {"pred"})

SceneParser_can_parse(line) == HasTok(line, {"scene"})

SubtitleParser_can_parse(line) == HasTok(line, {"sub"})

DialogueParser_can_parse(line) ==
    \/ line[1].t = "name"
    \/ HasTok(line, {"name", "name2"})

SoundParser_can_parse(line) ==
    \/ StartsWithBracket(line) /\ ContainsAny(line, SoundCommands)
    \/ StartsWithAngle(line) /\ EndsWithAngle(line)

NarrationParser_can_parse(line) ==
    line[1].t = "quote" /\ Last(line).t = "quote"

can_parse(kind, line) ==
    CASE kind = "control" -> ControlParser_can_parse(line)
      [] kind = "image" -> ImageParser_can_parse(line)
      [] kind = "decision" -> DecisionParser_can_parse(line)
      [] kind = "predicate" -> PredicateParser_can_parse(line)
      [] kind = "scene" -> SceneParser_can_parse(line)
      [] kind = "subtitle" -> SubtitleParser_can_parse(line)
      [] kind = "dialogue" -> DialogueParser_can_parse(line)
      [] kind = "sound" -> SoundParser_can_parse(line)
      [] kind = "narration" -> NarrationParser_can_parse(line)

(***************************************************************************)
(* The world the operations act on, as one record:                         *)
(*   parsers        ParserRegistry.parsers: [kind, priority, enabled]      *)
(*   dstate         context.state["DecisionParser_state"]                  *)
(*   istate         context.state["ImageParser_state"]                     *)
(*   heap           the (image_reference_runs, images_to_append) objects:  *)
(*                  object 1 is the assembler's own pair, each             *)
(*                  ImageParser.initialize allocates a new pair, and the   *)
(*                  image state and the assembler refer to pairs by index  *)
(*   doc            the document's paragraphs                              *)
(*   skipped_lines, first_section, has_main_title, image_map,              *)
(*   image_counter, image_obj      the DocumentAssembler's fields          *)
(*   fetchLog       every requests.get issued: [obj, idx, url]             *)
(***************************************************************************)
Para(cmd, a, n) == [cmd |-> cmd, a |-> a, n |-> n]

NoDecisionState == [tag |-> "none", options |-> EmptyMap, predicate |-> << >>]

NoImageState == [tag |-> "none", image_counter |-> 0, obj |-> 0]

EmptyImageObj == [runs |-> EmptyMap, queue |-> << >>]

(***************************************************************************)
(* ParserRegistry: register, enable_parser, disable_parser.                *)
(***************************************************************************)
\* list.sort(key=priority) is stable: insertion sort, equal keys keep their order.
RECURSIVE InsertSorted(_, _)
InsertSorted(sorted, p) ==
    IF sorted = << >> THEN <<p>>
    ELSE IF Last(sorted).priority <= p.priority THEN Append(sorted, p)
    ELSE Append(InsertSorted(SubSeq(sorted, 1, Len(sorted) - 1), p), Last(sorted))

RECURSIVE StableSort(_)
StableSort(ps) ==
    IF ps = << >> THEN << >>
    ELSE InsertSorted(StableSort(SubSeq(ps, 1, Len(ps) - 1)), Last(ps))

\* register without its sort: the list stays in the order of registration.
register_unsorted(ps, parser) == Append(ps, parser)

register(ps, parser) == StableSort(Append(ps, parser))

\* get_parser: the first parser of the class, or 0.
get_parser(ps, kind) ==
    IF \E i \in 1..Len(ps) : ps[i].kind = kind
    THEN CHOOSE i \in 1..Len(ps) :
            ps[i].kind = kind /\ \A j \in 1..(i - 1) : ps[j].kind # kind
    ELSE 0

SetEnabled(ps, kind, flag) ==
    LET i == get_parser(ps, kind)
    IN  IF i = 0 THEN ps ELSE [ps EXCEPT ![i].enabled = flag]

enable_parser(ps, kind) == SetEnabled(ps, kind, TRUE)

\* A disable that takes the parser off the list, as unregister does.
disable_parser_unregister(ps, kind) ==
    IF get_parser(ps, kind) = 0 THEN ps
    ELSE SubSeq(ps, 1, get_parser(ps, kind) - 1)
            \o SubSeq(ps, get_parser(ps, kind) + 1, Len(ps))

disable_parser(ps, kind) == SetEnabled(ps, kind, FALSE)

(***************************************************************************)
(* The render helpers of parse_text_to_docx.py.                            *)
(***************************************************************************)
MergeLabel == "merge"

\* options_map.get(r, "option" + r)
OptionText(options_map, r) ==
    IF r \in DOMAIN options_map THEN <<options_map[r]>> ELSE <<"option", r>>

RECURSIVE JoinAmp(_, _)
JoinAmp(options_map, refs) ==
    IF refs = << >> THEN << >>
    ELSE IF Len(refs) = 1 THEN OptionText(options_map, refs[1])
    ELSE OptionText(options_map, refs[1]) \o <<" & ">>
            \o JoinAmp(options_map, Tail(refs))

\* A title without the merge case: several references are always joined.
PredicateTitle_joined(refs, options_map) ==
    IF Len(refs) = 1 THEN OptionText(options_map, refs[1])
    ELSE JoinAmp(options_map, refs)

PredicateTitle(refs, options_map) ==
    IF Len(refs) = 1 THEN OptionText(options_map, refs[1])
    ELSE IF Len(refs) = Cardinality(DOMAIN options_map) THEN <<MergeLabel>>
    ELSE JoinAmp(options_map, refs)

add_predicate_header(doc, refs, options_map) ==
    Append(doc, Para("predicate_header", PredicateTitle(refs, options_map), 0))

\* Texts with a character in U+4E00..U+9FFF, written by their code points.
CJKTexts == {"U+96F7U+58F0"}

\* Texts matching ^\$?[A-Za-z0-9_\-/\$]+$ .
ResourceIdTexts ==
    {"$bgm_001", "bgm_001", "sound/rain", "PlaySound", "StopSound", "Delay"}

\* A helper that writes every text, resource ids included.
add_sound_effect_always(doc, text) == Append(doc, Para("sound_effect", text, 0))

add_sound_effect(doc, text) ==
    IF \E i \in 1..Len(text) : text[i] \in CJKTexts
    THEN Append(doc, Para("sound_effect", text, 0))
    ELSE IF Len(text) = 1 /\ text[1] \in ResourceIdTexts THEN doc
    ELSE Append(doc, Para("sound_effect", text, 0))

add_image_reference(doc, image_index) ==
    Append(doc, Para("image_reference", << >>, image_index))

(***************************************************************************)
(* parse of the nine parsers: the world after, and "true", "false" or      *)
(* "raise" (subscripting a missing state raises TypeError before anything  *)
(* is written).                                                            *)
(***************************************************************************)
Out(w, res) == [w |-> w, res |-> res]

ControlParser_parse(w, line) == Out(w, "false")

\* A parse that takes a local index also for an identifier not in the map.
ImageParser_parse_counts_miss(w, line) ==
    IF w.istate.tag = "none" THEN Out(w, "raise")
    ELSE IF StripStr(line[FirstTok(line, {"img"})].a[1]) \notin DOMAIN w.image_map
    THEN Out([w EXCEPT !.istate.image_counter = w.istate.image_counter + 1],
             "true")
    ELSE Out([w EXCEPT
                !.istate.image_counter = w.istate.image_counter + 1,
                !.doc = add_image_reference(w.doc, w.istate.image_counter + 1),
                !.heap[w.istate.obj] =
                    [runs |-> Put(w.heap[w.istate.obj].runs,
                                  w.istate.image_counter + 1, Len(w.doc) + 1),
                     queue |-> Append(w.heap[w.istate.obj].queue,
                         [idx |-> w.istate.image_counter + 1,
                          url |-> w.image_map[
                              StripStr(line[FirstTok(line, {"img"})].a[1])]])]],
             "true")

ImageParser_parse(w, line) ==
    LET image_id == StripStr(line[FirstTok(line, {"img"})].a[1])
        n == w.istate.image_counter + 1
        doc2 == add_image_reference(w.doc, n)
        obj == w.heap[w.istate.obj]
        obj2 == [runs |-> Put(obj.runs, n, Len(doc2)),
                 queue |-> Append(obj.queue,
                                  [idx |-> n, url |-> w.image_map[image_id]])]
    IN  IF image_id \notin DOMAIN w.image_map THEN Out(w, "true")
        ELSE IF w.istate.tag = "none" THEN Out(w, "raise")
        ELSE Out([w EXCEPT !.istate.image_counter = n,
                           !.doc = doc2,
                           !.heap[w.istate.obj] = obj2], "true")

RECURSIVE ZipDict(_, _, _)
ZipDict(values, options, d) ==
    IF values = << >> \/ options = << >> THEN d
    ELSE ZipDict(Tail(values), Tail(options),
                 Put(d, StripStr(Head(values)), StripStr(Head(options))))

\* A parse that adds the new pairs to the map of the decision before.
DecisionParser_parse_merge(w, line) ==
    IF w.dstate.tag = "none" THEN Out(w, "raise")
    ELSE Out([w EXCEPT !.dstate =
                 [tag |-> "full",
                  options |-> ZipDict(line[FirstTok(line, {"dec"})].b,
                                      line[FirstTok(line, {"dec"})].a,
                                      w.dstate.options),
                  predicate |-> << >>]], "true")

DecisionParser_parse(w, line) ==
    LET tok == line[FirstTok(line, {"dec"})]
    IN  IF w.dstate.tag = "none" THEN Out(w, "raise")
        ELSE Out([w EXCEPT !.dstate =
                     [tag |-> "full",
                      options |-> ZipDict(tok.b, tok.a, EmptyMap),
                      predicate |-> << >>]], "true")

\* m.group(1).strip().split(';') : the ends of the whole string are stripped.
References(tok) ==
    LET n == Len(tok.a)
    IN  [i \in 1..n |->
            IF n = 1 THEN StripStr(tok.a[i])
            ELSE IF i = 1 THEN LStripStr(tok.a[i])
            ELSE IF i = n THEN RStripStr(tok.a[i])
            ELSE tok.a[i]]

\* A parse that renders the header whether or not a decision is active.
PredicateParser_parse_unguarded(w, line) ==
    Out([w EXCEPT
            !.doc = add_predicate_header(
                        w.doc, References(line[FirstTok(line, {"pred"})]),
                        w.dstate.options),
            !.dstate.predicate =
                <<References(line[FirstTok(line, {"pred"})])>>], "true")

PredicateParser_parse(w, line) ==
    LET refs == References(line[FirstTok(line, {"pred"})])
        current_options ==
            IF w.dstate.tag = "full" THEN w.dstate.options ELSE EmptyMap
        doc2 == IF current_options # EmptyMap
                THEN add_predicate_header(w.doc, refs, current_options)
                ELSE w.doc
        tag2 == IF w.dstate.tag = "none" THEN "pred_only" ELSE w.dstate.tag
    IN  Out([w EXCEPT !.doc = doc2,
                      !.dstate = [tag |-> tag2,
                                  options |-> w.dstate.options,
                                  predicate |-> <<refs>>]], "true")

SceneParser_parse(w, line) ==
    LET tok == line[FirstTok(line, {"scene"})]
    IN  Out([w EXCEPT !.doc = w.doc
                \o <<Para("scene_title", <<StripStr(tok.a[1])>>, 0),
                     Para("scene_timestamp", <<StripStr(tok.b[1])>>, 0)>>],
            "true")

SubtitleParser_parse(w, line) ==
    LET tok == line[FirstTok(line, {"sub"})]
    IN  Out([w EXCEPT !.doc = Append(w.doc, Para("narration", <<tok.a[1]>>, 0))],
            "true")

DialogueParser_parse(w, line) ==
    LET i == IF line[1].t = "name" THEN 1 ELSE FirstTok(line, {"name", "name2"})
        character == StripStr(line[i].a[1])
        text == LineText(SubSeq(line, i + 1, Len(line)))
    IN  Out([w EXCEPT !.doc =
                Append(w.doc, Para("dialogue", <<character, ":">> \o text, 0))],
            "true")

SkipDirectives ==
    {"stopsound", "stopmusic", "soundvolume", "blocker", "delay",
     "background", "image", "imagetween", "curtain", "camerashake",
     "cameraeffect", "focusout", "bgeffect", "charslot", "dialog",
     "subtitle", "animtextclean", "animtext", "playsound", "playmusic"}

\* The command name re.match(r'\[?\s*([A-Za-z_][A-Za-z0-9_]*)') captures.
CommandName(tok) ==
    CASE tok.t \in {"tag", "snd"} -> tok.a[1]
      [] tok.t = "img" -> "Image"
      [] tok.t = "dec" -> "Decision"
      [] tok.t = "pred" -> "Predicate"
      [] tok.t = "sub" -> "Subtitle"
      [] OTHER -> "name"

\* line.strip('<>') and line.strip('[]'): a line of one token loses its
\* delimiters, a longer one keeps the inner ones.
StripDelims(line) ==
    IF Len(line) = 1 /\ line[1].t \in {"stage", "tag"} THEN <<line[1].a[1]>>
    ELSE IF Len(line) = 1 /\ line[1].t = "snd" /\ line[1].b = << >>
    THEN <<line[1].a[1]>>
    ELSE LineText(line)

HasKey(line) == \E i \in 1..Len(line) : line[i].t = "snd" /\ line[i].b # << >>

FirstKey(line) ==
    LET i == CHOOSE i \in 1..Len(line) :
                /\ line[i].t = "snd" /\ line[i].b # << >>
                /\ \A j \in 1..(i - 1) : ~(line[j].t = "snd" /\ line[j].b # << >>)
    IN  line[i].b[1]

SoundParser_parse(w, line) ==
    IF StartsWithAngle(line) /\ EndsWithAngle(line)
    THEN Out([w EXCEPT !.doc = add_sound_effect(w.doc, StripDelims(line))], "true")
    ELSE IF StartsWithBracket(line)
    THEN IF HasKey(line)
         THEN Out([w EXCEPT !.doc = add_sound_effect(w.doc, <<FirstKey(line)>>)],
                  "true")
         ELSE IF Lower(CommandName(line[1])) \in SkipDirectives
         THEN Out(w, "true")
         ELSE Out([w EXCEPT !.doc = add_sound_effect(w.doc, StripDelims(line))],
                  "true")
    ELSE Out(w, "false")

NarrationParser_parse(w, line) ==
    IF ~NarrationParser_can_parse(line) THEN Out(w, "false")
    ELSE Out([w EXCEPT !.doc = Append(w.doc, Para("narration", LineText(line), 0))],
             "true")

parse(kind, w, line) ==
    CASE kind = "control" -> ControlParser_parse(w, line)
      [] kind = "image" -> ImageParser_parse(w, line)
      [] kind = "decision" -> DecisionParser_parse(w, line)
      [] kind = "predicate" -> PredicateParser_parse(w, line)
      [] kind = "scene" -> SceneParser_parse(w, line)
      [] kind = "subtitle" -> SubtitleParser_parse(w, line)
      [] kind = "dialogue" -> DialogueParser_parse(w, line)
      [] kind = "sound" -> SoundParser_parse(w, line)
      [] kind = "narration" -> NarrationParser_parse(w, line)

(***************************************************************************)
(* DocumentAssembler.append_images.  outs[i] is what requests.get returns  *)
(* for the i-th queued entry: [ok |-> TRUE, v |-> content] or              *)
(* [ok |-> FALSE, v |-> str(e)].                                           *)
(***************************************************************************)
\* hashlib.sha256(content).hexdigest() on the contents the model fetches.
Sha256(content) ==
    CASE content = "bytesA" -> "sha:5a"
      [] content = "bytesB" -> "sha:7b"
      [] OTHER -> "sha:00"

\* Locals whose counter starts at 1: the first final index given is 2.
FetchStart_from_one ==
    [hash_to_final_index |-> EmptyMap, index_map |-> EmptyMap,
     output_entries |-> << >>, final_counter |-> 1]

FetchStart ==
    [hash_to_final_index |-> EmptyMap, index_map |-> EmptyMap,
     output_entries |-> << >>, final_counter |-> 0]

\* A loop turn that recognises a repeated image by its URL, not its content.
FetchOne_by_url(acc, entry, out) ==
    LET n == acc.final_counter + 1
    IN  IF out.ok /\ entry.url \in DOMAIN acc.hash_to_final_index
        THEN [acc EXCEPT !.index_map =
                 Put(acc.index_map, entry.idx, acc.hash_to_final_index[entry.url])]
        ELSE [hash_to_final_index |->
                  IF out.ok THEN Put(acc.hash_to_final_index, entry.url, n)
                  ELSE acc.hash_to_final_index,
              index_map |-> Put(acc.index_map, entry.idx, n),
              output_entries |-> Append(acc.output_entries,
                  [type |-> IF out.ok THEN "image" ELSE "error",
                   final_index |-> n, payload |-> out.v,
                   image_url |-> entry.url]),
              final_counter |-> n]

\* A loop turn that gives a failed fetch the final index of an earlier
\* failure of the same URL.
FetchOne_failure_by_url(acc, entry, out) ==
    LET n == acc.final_counter + 1
    IN  IF out.ok /\ Sha256(out.v) \in DOMAIN acc.hash_to_final_index
        THEN [acc EXCEPT !.index_map =
                 Put(acc.index_map, entry.idx,
                     acc.hash_to_final_index[Sha256(out.v)])]
        ELSE IF ~out.ok /\ entry.url \in DOMAIN acc.hash_to_final_index
        THEN [acc EXCEPT !.index_map =
                 Put(acc.index_map, entry.idx, acc.hash_to_final_index[entry.url])]
        ELSE [hash_to_final_index |->
                  Put(acc.hash_to_final_index,
                      IF out.ok THEN Sha256(out.v) ELSE entry.url, n),
              index_map |-> Put(acc.index_map, entry.idx, n),
              output_entries |-> Append(acc.output_entries,
                  [type |-> IF out.ok THEN "image" ELSE "error",
                   final_index |-> n, payload |-> out.v,
                   image_url |-> entry.url]),
              final_counter |-> n]

\* One turn of the loop over images_to_append.
FetchOne(acc, entry, out) ==
    LET image_hash == Sha256(out.v)
        n == acc.final_counter + 1
    IN  IF out.ok /\ image_hash \in DOMAIN acc.hash_to_final_index
        THEN [acc EXCEPT !.index_map =
                 Put(acc.index_map, entry.idx, acc.hash_to_final_index[image_hash])]
        ELSE IF out.ok
        THEN [hash_to_final_index |-> Put(acc.hash_to_final_index, image_hash, n),
              index_map |-> Put(acc.index_map, entry.idx, n),
              output_entries |-> Append(acc.output_entries,
                  [type |-> "image", final_index |-> n, payload |-> out.v,
                   image_url |-> entry.url]),
              final_counter |-> n]
        ELSE [hash_to_final_index |-> acc.hash_to_final_index,
              index_map |-> Put(acc.index_map, entry.idx, n),
              output_entries |-> Append(acc.output_entries,
                  [type |-> "error", final_index |-> n, payload |-> out.v,
                   image_url |-> entry.url]),
              final_counter |-> n]

\* A loop that a failed fetch ends: the failed entry and the entries after
\* it are left out.
RECURSIVE FetchAll_abort(_, _, _)
FetchAll_abort(queue, outs, i) ==
    IF i = 0 THEN FetchStart
    ELSE IF \E j \in 1..i : ~outs[j].ok THEN FetchAll_abort(queue, outs, i - 1)
    ELSE FetchOne(FetchAll_abort(queue, outs, i - 1), queue[i], outs[i])

RECURSIVE FetchAll(_, _, _)
FetchAll(queue, outs, i) ==
    IF i = 0 THEN FetchStart
    ELSE FetchOne(FetchAll(queue, outs, i - 1), queue[i], outs[i])

\* The placeholders left with the number they were given when parsed.
RewriteRuns_stale(doc, runs, index_map) == doc

\* Only the run of local index 1 is rewritten.
RewriteRuns_first(doc, runs, index_map) ==
    [p \in 1..Len(doc) |->
        IF 1 \in DOMAIN runs /\ runs[1] = p /\ 1 \in DOMAIN index_map
        THEN [doc[p] EXCEPT !.n = index_map[1]]
        ELSE doc[p]]

\* run.text = "[image n]" for every recorded run whose index was mapped.
RewriteRuns(doc, runs, index_map) ==
    [p \in 1..Len(doc) |->
        IF \E k \in DOMAIN runs : runs[k] = p /\ k \in DOMAIN index_map
        THEN LET k == CHOOSE k \in DOMAIN runs : runs[k] = p /\ k \in DOMAIN index_map
             IN  [doc[p] EXCEPT !.n = index_map[k]]
        ELSE doc[p]]

\* The paragraphs of one output entry.
EntryParas(e) ==
    IF e.type = "image"
    THEN <<Para("picture", <<e.payload>>, 0), Para("caption", << >>, e.final_index)>>
    ELSE <<Para("image_error", <<e.image_url, e.payload>>, e.final_index)>>

RECURSIVE EntriesParas(_)
EntriesParas(es) ==
    IF es = << >> THEN << >> ELSE EntryParas(Head(es)) \o EntriesParas(Tail(es))

append_images(w, outs) ==
    LET obj == w.heap[w.image_obj]
        queue == obj.queue
        r == FetchAll(queue, outs, Len(queue))
        log == [i \in 1..Len(queue) |->
                   [obj |-> w.image_obj, idx |-> queue[i].idx, url |-> queue[i].url]]
    IN  IF queue = << >> THEN w
        ELSE [w EXCEPT
                !.fetchLog = w.fetchLog \o log,
                !.fetches = w.fetches + 1,
                !.last_fetch = [index_map |-> r.index_map,
                                output_entries |-> r.output_entries,
                                queue |-> queue, outs |-> outs,
                                doc_before |-> Len(w.doc)],
                !.doc = RewriteRuns(w.doc, obj.runs, r.index_map)
                    \o <<Para("page_break", << >>, 0),
                         Para("image_section", << >>, 0)>>
                    \o EntriesParas(r.output_entries)]

(***************************************************************************)
(* initialize and finalize of the parsers, and ParserRegistry's            *)
(* initialize_all, finalize_all and parse_line.                            *)
(***************************************************************************)
\* An initialize that resets the counter and keeps the dict and the list of
\* an earlier state.
ImageParser_initialize_keep(w) ==
    IF w.istate.tag = "none"
    THEN [w EXCEPT !.heap = Append(w.heap, EmptyImageObj),
                   !.istate = [tag |-> "full", image_counter |-> 0,
                               obj |-> Len(w.heap) + 1]]
    ELSE [w EXCEPT !.istate.image_counter = 0]

ImageParser_initialize(w) ==
    [w EXCEPT !.heap = Append(w.heap, EmptyImageObj),
              !.istate = [tag |-> "full", image_counter |-> 0,
                          obj |-> Len(w.heap) + 1]]

DecisionParser_initialize(w) ==
    [w EXCEPT !.dstate = [tag |-> "full", options |-> EmptyMap,
                          predicate |-> << >>]]

initialize(kind, w) ==
    CASE kind = "image" -> ImageParser_initialize(w)
      [] kind = "decision" -> DecisionParser_initialize(w)
      [] OTHER -> w

\* The image state's queue, empty when there is no state.
StateQueue(w) ==
    IF w.istate.tag = "none" THEN << >> ELSE w.heap[w.istate.obj].queue

\* A finalize that hands over to append_images whatever the queue holds.
ImageParser_finalize_always(w, outs) ==
    append_images([w EXCEPT !.image_counter = w.istate.image_counter,
                            !.image_obj = w.istate.obj], outs)

ImageParser_finalize(w, outs) ==
    IF StateQueue(w) # << >>
    THEN append_images([w EXCEPT !.image_counter = w.istate.image_counter,
                                 !.image_obj = w.istate.obj], outs)
    ELSE w

finalize(kind, w, outs) ==
    IF kind = "image" THEN ImageParser_finalize(w, outs) ELSE w

RECURSIVE initialize_from(_, _)
initialize_from(w, i) ==
    IF i > Len(w.parsers) THEN w
    ELSE IF w.parsers[i].enabled
    THEN initialize_from(
            [initialize(w.parsers[i].kind, w) EXCEPT
                !.hooks = Append(w.hooks, <<"initialize", w.parsers[i].kind,
                                           Len(w.trace)>>)],
            i + 1)
    ELSE initialize_from(w, i + 1)

initialize_all(w) == initialize_from(w, 1)

\* A finalize_all that calls finalize on the disabled parsers too.
RECURSIVE finalize_from_all(_, _, _)
finalize_from_all(w, outs, i) ==
    IF i > Len(w.parsers) THEN w
    ELSE finalize_from_all(
            [finalize(w.parsers[i].kind, w, outs) EXCEPT
                !.hooks = Append(w.hooks, <<"finalize", w.parsers[i].kind,
                                           Len(w.trace)>>)],
            outs, i + 1)

RECURSIVE finalize_from(_, _, _)
finalize_from(w, outs, i) ==
    IF i > Len(w.parsers) THEN w
    ELSE IF w.parsers[i].enabled
    THEN finalize_from(
            [finalize(w.parsers[i].kind, w, outs) EXCEPT
                !.hooks = Append(w.hooks, <<"finalize", w.parsers[i].kind,
                                           Len(w.trace)>>)],
            outs, i + 1)
    ELSE finalize_from(w, outs, i + 1)

finalize_all(w, outs) == finalize_from(w, outs, 1)

\* What one parse_line did: the world after, the result, the parsers whose
\* can_parse and parse were invoked.
Dispatch(w, res, probes, parsed) ==
    [w |-> w, res |-> res, probes |-> probes, parsed |-> parsed]

RECURSIVE TryFrom(_, _, _, _)

\* A loop that goes on to the next parser when parse returns False.
Claimed_fallback(w, line, i, probes) ==
    LET kind == w.parsers[i].kind
        o == parse(kind, w, line)
        rest == TryFrom(o.w, line, i + 1, Append(probes, kind))
    IN  IF o.res = "false"
        THEN Dispatch(rest.w, rest.res, rest.probes, <<kind>> \o rest.parsed)
        ELSE Dispatch(o.w, o.res, Append(probes, kind), <<kind>>)

\* What the loop does once a parser's can_parse matched: return its parse.
Claimed(w, line, i, probes) ==
    LET kind == w.parsers[i].kind
        o == parse(kind, w, line)
    IN  Dispatch(o.w, o.res, Append(probes, kind), <<kind>>)

TryFrom(w, line, i, probes) ==
    IF i > Len(w.parsers) THEN Dispatch(w, "false", probes, << >>)
    ELSE IF ~w.parsers[i].enabled THEN TryFrom(w, line, i + 1, probes)
    ELSE IF can_parse(w.parsers[i].kind, line) THEN Claimed(w, line, i, probes)
    ELSE TryFrom(w, line, i + 1, Append(probes, w.parsers[i].kind))

\* A parse_line without the test for an empty line: the line goes through
\* the loop, where no can_parse matches it.
parse_line_unguarded(w, raw) ==
    IF Strip(raw) = << >>
    THEN Dispatch(w, "false",
                  [i \in 1..Len(w.parsers) |-> w.parsers[i].kind], << >>)
    ELSE TryFrom(w, Strip(raw), 1, << >>)

parse_line(w, raw) ==
    LET line == Strip(raw)
    IN  IF line = << >> THEN Dispatch(w, "false", << >>, << >>)
        ELSE TryFrom(w, line, 1, << >>)

(***************************************************************************)
(* DocumentAssembler: add_blank_lines, add_title, add_main_title,          *)
(* parse_lines, parse_text, save.                                          *)
(*   A missing argument (None) is << >>, a given one <<value>>; a missing  *)
(*   or empty string is "".                                                *)
(***************************************************************************)
RECURSIVE add_blank_lines(_, _)
add_blank_lines(doc, n) ==
    IF n <= 0 THEN doc ELSE add_blank_lines(Append(doc, Para("blank", << >>, 0)), n - 1)

add_title(doc, title, character) ==
    IF title = "" THEN doc
    ELSE IF character # "" THEN Append(doc, Para("title", <<character, title>>, 0))
    ELSE Append(doc, Para("title", <<title>>, 0))

\* An add_main_title that does not look at _has_main_title.
add_main_title_repeat(w, text) ==
    IF text = "" THEN w
    ELSE [w EXCEPT !.doc = Append(w.doc, Para("main_title", <<text>>, 0)),
                   !.has_main_title = TRUE]

add_main_title(w, text) ==
    IF text = "" \/ w.has_main_title THEN w
    ELSE [w EXCEPT !.doc = Append(w.doc, Para("main_title", <<text>>, 0)),
                   !.has_main_title = TRUE]

\* A title block that puts the blank paragraphs before every title.
SectionHead_always(w, title, character, spacer) ==
    IF title = "" THEN w
    ELSE [w EXCEPT
            !.doc = add_title(
                add_blank_lines(w.doc, IF spacer # << >> THEN spacer[1]
                                       ELSE w.spacer_lines),
                title, character),
            !.first_section = FALSE]

\* The title block of parse_lines.
SectionHead(w, title, character, spacer) ==
    LET n == IF spacer # << >> THEN spacer[1] ELSE w.spacer_lines
        doc1 == IF ~w.first_section /\ n > 0 THEN add_blank_lines(w.doc, n)
                ELSE w.doc
    IN  IF title = "" THEN w
        ELSE [w EXCEPT !.doc = add_title(doc1, title, character),
                       !.first_section = FALSE]

\* The entry of the trace for one line: what parse_line did (d) from world w
\* (the paragraphs it added, the decision state it left, whether it left the
\* decision and the image state entry as they were), and what the caller then
\* appended to skipped_lines.
TraceEntry(w, raw, d, appended) ==
    [raw |-> raw, res |-> d.res, probes |-> d.probes, parsed |-> d.parsed,
     quiet |-> d.w.doc = w.doc,
     added |-> SubSeq(d.w.doc, Len(w.doc) + 1, Len(d.w.doc)),
     dstate |-> d.w.dstate,
     state_same |-> d.w.dstate = w.dstate /\ d.w.istate = w.istate
                    /\ d.w.heap = w.heap,
     decision_same |-> d.w.dstate = w.dstate,
     image_same |-> d.w.istate = w.istate /\ d.w.heap = w.heap,
     appended |-> appended]

\* The world after one line: d is what parse_line did from world w, appended
\* what the loop then appends to skipped_lines.
Logged(w, raw, d, appended) ==
    [d.w EXCEPT !.skipped_lines = d.w.skipped_lines \o appended,
                !.trace = Append(w.trace, TraceEntry(w, raw, d, appended))]

\* A loop that records a line only once in skipped_lines.
Recorded_dedup(w, raw, d) ==
    Logged(w, raw, d,
           IF /\ d.res = "false"
              /\ \A i \in 1..Len(d.w.skipped_lines) :
                    d.w.skipped_lines[i] # RstripNewline(raw)
           THEN <<RstripNewline(raw)>> ELSE << >>)

\* A loop that records the stripped line.
Recorded_stripped(w, raw, d) ==
    Logged(w, raw, d,
           IF d.res = "false" THEN <<Raw(Strip(raw), "none")>> ELSE << >>)

\* A loop that does not record an unhandled line that is blank.
Recorded_nonblank(w, raw, d) ==
    Logged(w, raw, d,
           IF d.res = "false" /\ Strip(raw) # << >>
           THEN <<RstripNewline(raw)>> ELSE << >>)

\* if not handled: self.skipped_lines.append(raw.rstrip('\n'))
Recorded(w, raw, d) ==
    Logged(w, raw, d, IF d.res = "false" THEN <<RstripNewline(raw)>> ELSE << >>)

\* One turn of the loop over the lines.
LineStep(w, raw) == Recorded(w, raw, parse_line(w, raw))

Raised(w) == w.trace # << >> /\ Last(w.trace).res = "raise"

RECURSIVE parse_each(_, _)

\* The loop stops at a line whose parse raised.
parse_rest(w1, lines) == IF Raised(w1) THEN w1 ELSE parse_each(w1, lines)

parse_each(w, lines) ==
    IF lines = << >> THEN w
    ELSE parse_rest(LineStep(w, Head(lines)), Tail(lines))

\* A parse_lines that writes the title block after the lines, not before.
parse_lines_body_title_last(w, lines, title, character, spacer, image_map) ==
    SectionHead(
        parse_each(
            initialize_all(
                [w EXCEPT !.trace = << >>, !.hooks = << >>, !.fetches = 0,
                          !.image_map = IF image_map # EmptyMap THEN image_map
                                        ELSE w.image_map]),
            lines),
        title, character, spacer)

\* A parse_lines that updates the active image map with the given one.
parse_lines_body_update_map(w, lines, title, character, spacer, image_map) ==
    parse_each(
        SectionHead(
            initialize_all(
                [w EXCEPT !.trace = << >>, !.hooks = << >>, !.fetches = 0,
                          !.image_map =
                              [id \in DOMAIN w.image_map \cup DOMAIN image_map |->
                                  IF id \in DOMAIN image_map THEN image_map[id]
                                  ELSE w.image_map[id]]]),
            title, character, spacer),
        lines)

\* parse_lines up to the end of its loop.
parse_lines_body(w, lines, title, character, spacer, image_map) ==
    parse_each(
        SectionHead(
            initialize_all(
                [w EXCEPT !.trace = << >>, !.hooks = << >>, !.fetches = 0,
                          !.image_map = IF image_map # EmptyMap THEN image_map
                                        ELSE w.image_map]),
            title, character, spacer),
        lines)

\* parse_lines after its loop: finalize_all and the returned list.
parse_lines_end(w1, outs) ==
    IF Raised(w1) THEN w1
    ELSE [finalize_all(w1, outs) EXCEPT !.returned = w1.skipped_lines]

\* parse_lines; outs are the fetch results of its finalize_all.
parse_lines(w, lines, title, character, spacer, image_map, outs) ==
    parse_lines_end(
        parse_lines_body(w, lines, title, character, spacer, image_map), outs)

\* The number of fetches the finalize_all of a parse_lines call issues from
\* the world w1 its loop left.
Pending(w1) ==
    IF Raised(w1) \/ \A i \in 1..Len(w1.parsers) :
                        ~(w1.parsers[i].kind = "image" /\ w1.parsers[i].enabled)
    THEN 0 ELSE Len(StateQueue(w1))

FetchCount(w, lines, title, character, spacer, image_map) ==
    Pending(parse_lines_body(w, lines, title, character, spacer, image_map))

parse_text(w, lines, title, character, spacer, main_title, image_map, outs) ==
    parse_lines(add_main_title(w, main_title), lines, title, character, spacer,
                image_map, outs)

save(w, outs) ==
    LET w1 == append_images([w EXCEPT !.trace = << >>, !.hooks = << >>,
                                      !.fetches = 0], outs)
    IN  [w1 EXCEPT !.footer_fields =
                      IF w.add_page_numbers THEN w.footer_fields + 1
                      ELSE w.footer_fields,
                   !.saved = w.saved + 1,
                   !.returned = w1.skipped_lines]

(***************************************************************************)
(* The state.                                                              *)
(*   trace      one entry per line of the last operation (what parse_line  *)
(*              did with it), hooks its initialize and finalize calls      *)
(*              (hook, parser, lines dispatched before the call),          *)
(*              fetches how many times its append_images went through the  *)
(*              queue, last_fetch the locals of the last append_images     *)
(*              that did, returned the list the last call returned         *)
(*   calls, lines_parsed   how many parse calls and lines the session had  *)
(*   given_map  the image_map argument of the last operation, none when it *)
(*              took none                                                  *)
(*   op         the operation that ran last                                 *)
(***************************************************************************)
VARIABLES parsers, dstate, istate, heap, doc, skipped_lines, first_section,
          has_main_title, image_map, image_counter, image_obj, spacer_lines,
          add_page_numbers, footer_fields, saved, fetchLog, last_fetch, fetches,
          hooks, trace, returned, calls, lines_parsed, given_map, op

vars ==
    <<parsers, dstate, istate, heap, doc, skipped_lines, first_section,
      has_main_title, image_map, image_counter, image_obj, spacer_lines,
      add_page_numbers, footer_fields, saved, fetchLog, last_fetch, fetches,
      hooks, trace, returned, calls, lines_parsed, given_map, op>>

World ==
    [parsers |-> parsers, dstate |-> dstate, istate |-> istate, heap |-> heap,
     doc |-> doc, skipped_lines |-> skipped_lines,
     first_section |-> first_section, has_main_title |-> has_main_title,
     image_map |-> image_map, image_counter |-> image_counter,
     image_obj |-> image_obj, spacer_lines |-> spacer_lines,
     add_page_numbers |-> add_page_numbers, footer_fields |-> footer_fields,
     saved |-> saved, fetchLog |-> fetchLog, last_fetch |-> last_fetch,
     fetches |-> fetches, hooks |-> hooks, trace |-> trace, returned |-> returned]

Commit(w) ==
    /\ parsers' = w.parsers
    /\ dstate' = w.dstate
    /\ istate' = w.istate
    /\ heap' = w.heap
    /\ doc' = w.doc
    /\ skipped_lines' = w.skipped_lines
    /\ first_section' = w.first_section
    /\ has_main_title' = w.has_main_title
    /\ image_map' = w.image_map
    /\ image_counter' = w.image_counter
    /\ image_obj' = w.image_obj
    /\ spacer_lines' = w.spacer_lines
    /\ add_page_numbers' = w.add_page_numbers
    /\ footer_fields' = w.footer_fields
    /\ saved' = w.saved
    /\ fetchLog' = w.fetchLog
    /\ last_fetch' = w.last_fetch
    /\ fetches' = w.fetches
    /\ hooks' = w.hooks
    /\ trace' = w.trace
    /\ returned' = w.returned

(***************************************************************************)
(* Construction.  ParserConfig.DEFAULT_CONFIG gives the priorities, the    *)
(* spacer count and the page-number switch; _setup_parsers registers the   *)
(* nine parsers in the order of Kinds.                                     *)
(***************************************************************************)
DefaultPriority(kind) ==
    CASE kind = "control" -> 5
      [] kind = "image" -> 10
      [] kind = "decision" -> 20
      [] kind = "predicate" -> 21
      [] kind = "scene" -> 30
      [] kind = "subtitle" -> 35
      [] kind = "dialogue" -> 40
      [] kind = "sound" -> 45
      [] kind = "narration" -> 60

DefaultSpacerLines == 2

\* A parser object; seq is its place in the order of registration.
Parser(kind, priority, enabled, seq) ==
    [kind |-> kind, priority |-> priority, enabled |-> enabled, seq |-> seq]

RECURSIVE SetupFrom(_, _)
SetupFrom(ps, i) ==
    IF i > Len(Kinds) THEN ps
    ELSE SetupFrom(register(ps, Parser(Kinds[i], DefaultPriority(Kinds[i]), TRUE, i)),
                   i + 1)

_setup_parsers == SetupFrom(<< >>, 1)

NoFetch ==
    [index_map |-> EmptyMap, output_entries |-> << >>, queue |-> << >>,
     outs |-> << >>, doc_before |-> 0]

\* The fields DocumentAssembler.__init__ sets, around a registry.
Constructed(ps) ==
    /\ parsers = ps
    /\ dstate = NoDecisionState
    /\ istate = NoImageState
    /\ heap = <<EmptyImageObj>>
    /\ doc = << >>
    /\ skipped_lines = << >>
    /\ first_section = TRUE
    /\ has_main_title = FALSE
    /\ image_map = EmptyMap
    /\ image_counter = 0
    /\ image_obj = 1
    /\ spacer_lines = DefaultSpacerLines
    /\ add_page_numbers = TRUE
    /\ footer_fields = 0
    /\ saved = 0
    /\ fetchLog = << >>
    /\ last_fetch = NoFetch
    /\ fetches = 0
    /\ hooks = << >>
    /\ trace = << >>
    /\ returned = << >>
    /\ calls = 0
    /\ lines_parsed = 0
    /\ given_map = << >>
    /\ op = "init"

Init == Constructed(_setup_parsers)

(***************************************************************************)
(* Inputs: sample lines, image maps and fetch results.                     *)
(***************************************************************************)
None == << >>

Sep == Tok("sep", None, None)
Tag(name) == Tok("tag", <<name>>, None)
Img(id) == Tok("img", <<id>>, None)
Dec(options, values) == Tok("dec", options, values)
Pred(refs) == Tok("pred", refs, None)
Text(s) == Tok("text", <<s>>, None)

Garbage == Text("@@@garbage@@@")

L_sep == Raw(<<Sep>>, "none")
L_dialog == Raw(<<Tag("Dialog")>>, "spaces")
L_img1 == Raw(<<Img("i1")>>, "none")
L_img2 == Raw(<<Img(" i2 ")>>, "none")
L_img3 == Raw(<<Img("i3")>>, "none")
L_imgX == Raw(<<Img("unknown")>>, "none")
L_dec == Raw(<<Dec(<<"A", "B">>, <<"1", "2">>)>>, "none")
L_pred1 == Raw(<<Pred(<<"1">>)>>, "none")
L_garbage == Raw(<<Garbage>>, "spaces")
L_garbage_nl == Raw(<<Garbage>>, "newline")
L_blank == Raw(<< >>, "spaces")
\* A control tag followed by an image directive: two parsers match it.
L_dialog_img == Raw(<<Tag("DIALOG"), Img("i1")>>, "none")

MapA == [id \in {"i1", "i2"} |-> IF id = "i1" THEN "url1" ELSE "url2"]
MapB == [id \in {"i1", "i3"} |-> "url3"]

Ok(content) == [ok |-> TRUE, v |-> content]
Fail(error) == [ok |-> FALSE, v |-> error]

Outcomes == {Ok("bytesA"), Ok("bytesB"), Fail("timeout")}

(***************************************************************************)
(* The operations, each over the sets its inputs are drawn from.           *)
(***************************************************************************)
\* The world as an operation finds it: the records of the last one cleared.
Fresh(w) == [w EXCEPT !.trace = << >>, !.hooks = << >>, !.fetches = 0]

EnabledNow(ps, kind) ==
    \E i \in 1..Len(ps) : ps[i].kind = kind /\ ps[i].enabled

DoParseText(LineSet, Titles, Spacers, MainTitles, Maps) ==
    /\ calls < MaxCalls
    /\ \E lines \in SeqsUpTo(LineSet, MaxLines - lines_parsed) :
       \E title \in Titles, spacer \in Spacers, main_title \in MainTitles,
          map \in Maps :
         /\ \A i \in 1..Len(lines) : NoNewline(lines[i])
         /\ \E outs \in [1..FetchCount(World, lines, title, "", spacer, map)
                            -> Outcomes] :
               Commit(parse_text(World, lines, title, "", spacer, main_title,
                                 map, outs))
         /\ lines_parsed' = lines_parsed + Len(lines)
         /\ given_map' = map
    /\ calls' = calls + 1
    /\ op' = "parse_text"

DoParseLines(LineSet, Titles, Spacers, Maps) ==
    /\ calls < MaxCalls
    /\ \E lines \in SeqsUpTo(LineSet, MaxLines - lines_parsed) :
       \E title \in Titles, spacer \in Spacers, map \in Maps :
         /\ \E outs \in [1..FetchCount(World, lines, title, "", spacer, map)
                            -> Outcomes] :
               Commit(parse_lines(World, lines, title, "", spacer, map, outs))
         /\ lines_parsed' = lines_parsed + Len(lines)
         /\ given_map' = map
    /\ calls' = calls + 1
    /\ op' = "parse_lines"

DoSave ==
    /\ calls < MaxCalls
    /\ \E outs \in [1..Len(heap[image_obj].queue) -> Outcomes] :
          Commit(save(World, outs))
    /\ calls' = calls + 1
    /\ lines_parsed' = lines_parsed
    /\ given_map' = None
    /\ op' = "save"

DoAddMainTitle(MainTitles) ==
    /\ \E text \in MainTitles :
          Commit(add_main_title(Fresh(World),
                                text))
    /\ UNCHANGED <<calls, lines_parsed>>
    /\ given_map' = None
    /\ op' = "add_main_title"

DoEnableParser(Names) ==
    /\ \E name \in Names :
          Commit([Fresh(World) EXCEPT !.parsers = enable_parser(parsers, name)])
    /\ UNCHANGED <<calls, lines_parsed>>
    /\ given_map' = None
    /\ op' = "enable_parser"

DoDisableParser(Names) ==
    /\ \E name \in Names :
          Commit([Fresh(World) EXCEPT !.parsers = disable_parser(parsers, name)])
    /\ UNCHANGED <<calls, lines_parsed>>
    /\ given_map' = None
    /\ op' = "disable_parser"

(***************************************************************************)
(* Spec: a session of one assembler over a mixed script.                   *)
(***************************************************************************)
SessionLines == {L_sep, L_dialog, L_garbage, L_blank, L_img1}

FileLines == {L_garbage_nl, L_garbage, L_dialog}

ParseText == DoParseText(SessionLines, {""}, {None}, {""}, {MapA})

ParseLines == DoParseLines(FileLines, {""}, {None}, {EmptyMap})

Save == DoSave

Next == ParseText \/ ParseLines \/ Save

Spec == Init /\ [][Next]_vars

(***************************************************************************)
(* SpecImages: a session over image directives, mapped and unmapped: parse *)
(* calls, then one save that ends the session.                             *)
(***************************************************************************)
ImageLines == {L_img1, L_img2, L_imgX}

ParseImages == saved = 0 /\ DoParseText(ImageLines, {""}, {None}, {""}, {MapA})

SaveImages == saved = 0 /\ DoSave

NextImages == ParseImages \/ SaveImages

SpecImages == Init /\ [][NextImages]_vars

(***************************************************************************)
(* SpecBranch: a session over decision, predicate and image directives.    *)
(***************************************************************************)
BranchLines == {L_dec, L_pred1, L_img1, L_garbage}

ParseBranch == DoParseText(BranchLines, {""}, {None}, {""}, {MapA})

NextBranch == ParseBranch \/ Save

SpecBranch == Init /\ [][NextBranch]_vars

(***************************************************************************)
(* SpecDecision: a session over decision and predicate directives: a       *)
(* decision of two values, of one value, with more options than values     *)
(* (and blanks around them), with more values than options; predicates     *)
(* that reference one value, all values, an absent value.                  *)
(***************************************************************************)
DecisionLines ==
    {L_dec,
     Raw(<<Dec(<<"C">>, <<"1">>)>>, "none"),
     Raw(<<Dec(<<" A", "B", "C">>, <<" 1", "2 ">>)>>, "none"),
     Raw(<<Dec(<<"D">>, <<"3", "4">>)>>, "none"),
     L_pred1,
     Raw(<<Pred(<<"1", "2">>)>>, "none"),
     Raw(<<Pred(<<"3">>)>>, "none"),
     Raw(<<Pred(<<"1", "3">>)>>, "none")}

SpecDecision ==
    Init /\ [][DoParseText(DecisionLines, {""}, {None}, {""}, {MapA})]_vars

(***************************************************************************)
(* SpecSections: a session of parse_text calls with and without a section  *)
(* title, with the default spacer_lines or an override of -1, 0 or 1.      *)
(***************************************************************************)
SectionLines == {L_dec, L_pred1}

SpecSections ==
    Init /\ [][DoParseText(SectionLines, {"", "Chapter"},
                           {None, <<-1>>, <<0>>, <<1>>}, {""}, {MapA})]_vars

(***************************************************************************)
(* SpecSound: a session over sound directives and stage directions: a key  *)
(* that is a resource id, a key that is a description, a directive without *)
(* key, stage directions that are a description, a resource id, CJK text.  *)
(***************************************************************************)
SoundLines ==
    {Raw(<<Tok("snd", <<"PlaySound">>, <<"$bgm_001">>)>>, "none"),
     Raw(<<Tok("snd", <<"PlayMusic">>, <<"rain at night">>)>>, "none"),
     Raw(<<Tok("snd", <<"StopSound">>, None)>>, "none"),
     Raw(<<Tok("stage", <<"distant thunder">>, None)>>, "none"),
     Raw(<<Tok("stage", <<"sound/rain">>, None)>>, "spaces"),
     Raw(<<Tok("stage", <<"U+96F7U+58F0">>, None)>>, "none"),
     L_garbage}

SpecSound ==
    Init /\ [][DoParseText(SoundLines, {""}, {None}, {""}, {MapA})]_vars

(***************************************************************************)
(* SpecRegistry: the ParserRegistry driven directly, from an empty         *)
(* registry whose context holds a document and an assembler.               *)
(***************************************************************************)
Priorities == {5, 10}

RegistryKinds == {"control", "image", "predicate", "sound"}

L_dialog_pred == Raw(<<Tag("Dialog"), Pred(<<"1">>)>>, "none")
L_img_pred == Raw(<<Img("i1"), Pred(<<"1">>)>>, "spaces")
L_sound_img == Raw(<<Tok("snd", <<"PlaySound">>, <<"$bgm_001">>), Img("i1")>>, "none")

RegistryLines ==
    {L_dialog_img, L_dialog_pred, L_img_pred, L_sound_img, L_garbage, L_blank}

InitRegistry == Constructed(<< >>)

Register ==
    /\ Len(parsers) < MaxRules
    /\ \E kind \in RegistryKinds, priority \in Priorities, enabled \in BOOLEAN :
         /\ get_parser(parsers, kind) = 0
         /\ Commit([World EXCEPT
                !.parsers = register(parsers,
                    Parser(kind, priority, enabled, Len(parsers) + 1)),
                !.trace = << >>, !.hooks = << >>, !.fetches = 0])
    /\ UNCHANGED <<calls, lines_parsed>>
    /\ given_map' = None
    /\ op' = "register"

EnableParser == DoEnableParser(RegistryKinds)

DisableParser == DoDisableParser(RegistryKinds)

ParseLine ==
    /\ lines_parsed < MaxRegistryLines
    /\ \E raw \in RegistryLines :
         LET w0 == Fresh(World)
             d == parse_line(w0, raw)
         IN  Commit([d.w EXCEPT !.trace = <<TraceEntry(w0, raw, d, << >>)>>])
    /\ lines_parsed' = lines_parsed + 1
    /\ UNCHANGED calls
    /\ given_map' = None
    /\ op' = "parse_line"

NextRegistry == Register \/ EnableParser \/ DisableParser \/ ParseLine

SpecRegistry == InitRegistry /\ [][NextRegistry]_vars

(***************************************************************************)
(* SpecToggle: a session of parse_text calls with the image, decision and  *)
(* predicate parsers disabled and enabled between the calls.               *)
(***************************************************************************)
SpecToggle ==
    Init /\ [][\/ DoParseText({L_img_pred, L_dec}, {""}, {None}, {""}, {MapA})
               \/ DoDisableParser({"image", "decision", "predicate"})
               \/ DoEnableParser({"image", "decision", "predicate"})]_vars

(***************************************************************************)
(* C1: parse_line on a non-empty line gives the line to the enabled        *)
(* parser that matches it and comes first by ascending priority number,    *)
(* ties broken by the order of registration; to no parser when none        *)
(* matches.                                                                *)
(***************************************************************************)
\* The enabled parsers whose can_parse matches the line.
Matching(line) ==
    {i \in 1..Len(parsers) :
        parsers[i].enabled /\ can_parse(parsers[i].kind, line)}

\* Parser i comes before parser j in the order of the contract.
Before(i, j) ==
    \/ parsers[i].priority < parsers[j].priority
    \/ parsers[i].priority = parsers[j].priority /\ parsers[i].seq < parsers[j].seq

C1_PriorityOrder ==
    (op = "parse_line" /\ Strip(trace[1].raw) # << >>) =>
        LET line == Strip(trace[1].raw)
        IN  IF Matching(line) = {} THEN trace[1].parsed = << >>
            ELSE \E i \in Matching(line) :
                    /\ trace[1].parsed = <<parsers[i].kind>>
                    /\ \A j \in Matching(line) \ {i} : Before(i, j)

\* Two enabled parsers match, and the one registered later won on priority.
C1_Witness ==
    /\ op = "parse_line"
    /\ Strip(trace[1].raw) # << >>
    /\ \E i, j \in Matching(Strip(trace[1].raw)) :
          /\ trace[1].parsed = <<parsers[i].kind>>
          /\ parsers[i].priority < parsers[j].priority
          /\ parsers[i].seq > parsers[j].seq

(***************************************************************************)
(* C2: parse_line never falls back.  The parsers probed are exactly the    *)
(* enabled ones up to the first match, in list order; that parser's parse  *)
(* is the only one called, its result is the result, and when it is the    *)
(* control parser the result is false and nothing else was done to the     *)
(* document or the parser states.                                          *)
(***************************************************************************)
\* The kinds of the enabled parsers among the first n of the list.
RECURSIVE EnabledKinds(_)
EnabledKinds(n) ==
    IF n = 0 THEN << >>
    ELSE IF parsers[n].enabled THEN Append(EnabledKinds(n - 1), parsers[n].kind)
    ELSE EnabledKinds(n - 1)

C2_NoFallback ==
    (op = "parse_line" /\ Strip(trace[1].raw) # << >>) =>
        LET line == Strip(trace[1].raw)
            e == trace[1]
        IN  IF Matching(line) = {}
            THEN e.parsed = << >> /\ e.res = "false"
                 /\ e.probes = EnabledKinds(Len(parsers))
            ELSE LET i == CHOOSE i \in Matching(line) :
                            \A j \in Matching(line) : i <= j
                 IN  /\ e.parsed = <<parsers[i].kind>>
                     /\ e.probes = EnabledKinds(i)
                     /\ parsers[i].kind = "control" =>
                            e.res = "false" /\ e.quiet /\ e.state_same
                     /\ parsers[i].kind # "control" => e.res = "true"

\* The control parser claimed a line and returned false while a later
\* enabled parser matches the line too.
C2_Witness ==
    /\ op = "parse_line"
    /\ Strip(trace[1].raw) # << >>
    /\ trace[1].parsed = <<"control">>
    /\ trace[1].res = "false"
    /\ Cardinality(Matching(Strip(trace[1].raw))) >= 2


(***************************************************************************)
(* C3: over a session of parse calls followed by save, the resource        *)
(* finalize step runs once for the queued image references: no queued      *)
(* entry is fetched twice and the document gets no more than one trailing  *)
(* image section for each queue.                                           *)
(***************************************************************************)
ImageSections == {p \in 1..Len(doc) : doc[p].cmd = "image_section"}

FetchedQueues == {fetchLog[i].obj : i \in 1..Len(fetchLog)}

C3_FinalizeOnce ==
    /\ \A i, j \in 1..Len(fetchLog) : i # j => fetchLog[i] # fetchLog[j]
    /\ Cardinality(ImageSections) <= Cardinality(FetchedQueues)

(***************************************************************************)
(* C4: a second or later parse call on the same assembler keeps the        *)
(* decision options, the image counter and the pending image references:   *)
(* the counter grows by the call's placeholders, the options stay unless   *)
(* the call has a decision directive, and a predicate that opens the call  *)
(* is rendered against the options of the earlier call.                    *)
(***************************************************************************)
\* The number of lines of the trace for which the image parser added a
\* placeholder.
RECURSIVE Placeholders(_)
Placeholders(tr) ==
    IF tr = << >> THEN 0
    ELSE Placeholders(Tail(tr))
         + (IF Head(tr).parsed = <<"image">> /\ ~Head(tr).quiet THEN 1 ELSE 0)

C4_StateSurvivesCalls ==
    [][(op' = "parse_text" /\ istate.tag = "full" /\ dstate.tag = "full") =>
          /\ istate'.image_counter
                = istate.image_counter + Placeholders(trace')
          /\ IsPrefix(StateQueue(World), heap'[istate'.obj].queue)
          /\ (\A k \in 1..Len(trace') : trace'[k].parsed # <<"decision">>)
                => dstate'.options = dstate.options
          /\ (/\ trace' # << >>
              /\ trace'[1].parsed = <<"predicate">>
              /\ dstate.options # EmptyMap)
                => ~trace'[1].quiet]_vars

(***************************************************************************)
(* C5: a line the control parser claims produces no paragraph and is not   *)
(* appended to skipped_lines, although the parser's parse returns false.   *)
(***************************************************************************)
C5_ControlNotSkipped ==
    \A k \in 1..Len(trace) :
        trace[k].parsed = <<"control">> =>
            /\ trace[k].res = "false"
            /\ trace[k].quiet
            /\ trace[k].appended = << >>

(***************************************************************************)
(* C6: a non-empty line no enabled parser matches produces no paragraph,   *)
(* changes no parser state and is appended to skipped_lines exactly once.  *)
(* As claimed, the entry is the raw line itself; as amended, it is the raw *)
(* line less its trailing newline, with its blanks kept.                   *)
(***************************************************************************)
Unrecognized(e) == Strip(e.raw) # << >> /\ Matching(Strip(e.raw)) = {}

C6_SkippedVerbatim ==
    \A k \in 1..Len(trace) :
        Unrecognized(trace[k]) =>
            /\ trace[k].quiet
            /\ trace[k].state_same
            /\ trace[k].appended = <<trace[k].raw>>

\* The raw line without a trailing newline; leading and trailing blanks stay.
LessNewline(raw) ==
    [body |-> raw.body, pad |-> IF raw.pad = "newline" THEN "none" ELSE raw.pad]

C6_SkippedLessNewline ==
    \A k \in 1..Len(trace) :
        (Unrecognized(trace[k]) /\ op \in {"parse_text", "parse_lines"}) =>
            /\ trace[k].quiet
            /\ trace[k].state_same
            /\ trace[k].parsed = << >>
            /\ trace[k].appended = <<LessNewline(trace[k].raw)>>
            /\ trace[k].raw.pad # "newline" => trace[k].appended = <<trace[k].raw>>

\* An unrecognized line with blanks around it was appended with them.
C6_Witness ==
    /\ op = "parse_text"
    /\ \E k \in 1..Len(trace) :
          /\ Unrecognized(trace[k])
          /\ trace[k].raw.pad = "spaces"
          /\ trace[k].appended = <<trace[k].raw>>
          /\ Last(skipped_lines) = trace[k].raw

(***************************************************************************)
(* C7: skipped_lines is append-only over a session.  Every step keeps the  *)
(* old list as a prefix; a parse call or save returns the whole list,      *)
(* which extends the list returned before by the lines of the call whose   *)
(* dispatch returned false, in input order, duplicates kept.               *)
(***************************************************************************)
RECURSIVE FalseLines(_)
FalseLines(tr) ==
    IF tr = << >> THEN << >>
    ELSE (IF Head(tr).res = "false" THEN <<LessNewline(Head(tr).raw)>> ELSE << >>)
         \o FalseLines(Tail(tr))

C7_AppendOnly ==
    [][/\ IsPrefix(skipped_lines, skipped_lines')
       /\ op' \in {"parse_text", "parse_lines", "save"} =>
            /\ returned' = skipped_lines'
            /\ IsPrefix(returned, returned')
            /\ skipped_lines' = skipped_lines \o FalseLines(trace')]_vars

\* A second call returned a list that repeats an entry of the first call.
C7_Witness ==
    /\ calls = 2
    /\ op \in {"parse_text", "parse_lines"}
    /\ Len(trace) = 1
    /\ Len(returned) >= 2
    /\ returned[1] = Last(returned)

(***************************************************************************)
(* The last run of append_images, as the claims on the trailing image     *)
(* section see it: the queue, the outcome of each fetch, the index map,   *)
(* the output entries and the paragraphs added after the body.            *)
(***************************************************************************)
Fetched == fetches > 0

FQueue == last_fetch.queue

FOuts == last_fetch.outs

FIndexMap == last_fetch.index_map

FEntries == last_fetch.output_entries

FTail == SubSeq(doc, last_fetch.doc_before + 1, Len(doc))

SameContent(i, j) ==
    FOuts[i].ok /\ FOuts[j].ok /\ Sha256(FOuts[i].v) = Sha256(FOuts[j].v)

\* Entry i opens a new final index: it failed, or its content is new.
Opens(i) == ~FOuts[i].ok \/ \A j \in 1..(i - 1) : ~SameContent(i, j)

\* The final index due to entry i: that of the earliest entry of equal
\* content, counted over the entries that open an index.
Earliest(i) ==
    IF FOuts[i].ok THEN CHOOSE j \in 1..i : SameContent(i, j)
                          /\ \A k \in 1..(j - 1) : ~SameContent(i, k)
    ELSE i

DueIndex(i) == Cardinality({j \in 1..Earliest(i) : Opens(j)})

(***************************************************************************)
(* C8: queue entries whose fetched content has the same hash get the same  *)
(* final index, the one of the earliest of them, and the content is stored *)
(* once, in the output entries and in the trailing section.                *)
(***************************************************************************)
C8_Dedup ==
    Fetched =>
        \A i, j \in 1..Len(FQueue) :
            SameContent(i, j) =>
                /\ FQueue[i].idx \in DOMAIN FIndexMap
                /\ FQueue[j].idx \in DOMAIN FIndexMap
                /\ FIndexMap[FQueue[i].idx] = FIndexMap[FQueue[j].idx]
                /\ FIndexMap[FQueue[i].idx] = DueIndex(i)
                /\ Cardinality({e \in 1..Len(FEntries) :
                       /\ FEntries[e].type = "image"
                       /\ Sha256(FEntries[e].payload) = Sha256(FOuts[i].v)}) = 1
                /\ Cardinality({p \in 1..Len(FTail) :
                       /\ FTail[p].cmd = "picture"
                       /\ FTail[p].a = <<FOuts[i].v>>}) = 1

\* Two entries of different URLs and equal content, after an entry of other
\* content, share the final index 2.
C8_Witness ==
    /\ Fetched
    /\ \E i, j \in 1..Len(FQueue) :
          /\ 1 < i /\ i < j
          /\ SameContent(i, j)
          /\ ~SameContent(1, i)
          /\ FQueue[i].url # FQueue[j].url
          /\ FIndexMap[FQueue[j].idx] = 2
          /\ FIndexMap[FQueue[i].idx] = 2

(***************************************************************************)
(* C9: the trailing section made by a finalize is a page break, the        *)
(* section title and one block for each distinct final index, ascending:   *)
(* the stored image with its caption, or the error marker.  Every          *)
(* placeholder of the body shows the final index of its entry, so two      *)
(* references to the same content show the same index and get one block.   *)
(***************************************************************************)
FirstWith(f) ==
    CHOOSE i \in 1..Len(FQueue) :
        /\ DueIndex(i) = f
        /\ \A j \in 1..(i - 1) : DueIndex(j) # f

Block(f) ==
    LET i == FirstWith(f)
    IN  IF FOuts[i].ok
        THEN <<Para("picture", <<FOuts[i].v>>, 0), Para("caption", << >>, f)>>
        ELSE <<Para("image_error", <<FQueue[i].url, FOuts[i].v>>, f)>>

RECURSIVE Blocks(_, _)
Blocks(f, k) == IF f > k THEN << >> ELSE Block(f) \o Blocks(f + 1, k)

DistinctFinal == {DueIndex(i) : i \in 1..Len(FQueue)}

FRuns == heap[fetchLog[Len(fetchLog)].obj].runs

C10_FailureDoesNotAbort ==
    Fetched =>
        \A i \in 1..Len(FQueue) :
            /\ FQueue[i].idx \in DOMAIN FIndexMap
            /\ FIndexMap[FQueue[i].idx] = DueIndex(i)
            /\ ~FOuts[i].ok =>
                  /\ \E e \in 1..Len(FEntries) :
                        FEntries[e] = [type |-> "error",
                                       final_index |-> DueIndex(i),
                                       payload |-> FOuts[i].v,
                                       image_url |-> FQueue[i].url]
                  /\ \E p \in 1..Len(FTail) :
                        FTail[p] = Para("image_error",
                                        <<FQueue[i].url, FOuts[i].v>>, DueIndex(i))
            /\ (FOuts[i].ok /\ Opens(i)) =>
                  \E e \in 1..Len(FEntries) :
                        FEntries[e] = [type |-> "image",
                                       final_index |-> DueIndex(i),
                                       payload |-> FOuts[i].v,
                                       image_url |-> FQueue[i].url]

\* The first fetch failed, and the two entries after it were stored once
\* under index 2.
C10_Witness ==
    /\ Fetched
    /\ Len(FQueue) = 3
    /\ ~FOuts[1].ok
    /\ SameContent(2, 3)
    /\ FIndexMap[FQueue[1].idx] = 1
    /\ FIndexMap[FQueue[3].idx] = 2
    /\ FTail[3].cmd = "image_error"
    /\ FTail[4].cmd = "picture"

(***************************************************************************)
(* C11: after the finalize of a parse call, every placeholder the image    *)
(* parser recorded during the call shows the final index its local index   *)
(* was mapped to; none keeps a local index that differs from it.           *)
(***************************************************************************)
C11_PlaceholdersRewritten ==
    (op = "parse_text" /\ Fetched) =>
        /\ DOMAIN FRuns = {FQueue[i].idx : i \in 1..Len(FQueue)}
        /\ \A k \in DOMAIN FRuns :
              /\ k \in DOMAIN FIndexMap
              /\ doc[FRuns[k]].cmd = "image_reference"
              /\ doc[FRuns[k]].n = FIndexMap[k]

\* The third placeholder of a call shows final index 1, not its local index.
C11_Witness ==
    /\ op = "parse_text" /\ Fetched
    /\ 3 \in DOMAIN FRuns
    /\ FIndexMap[3] = 1
    /\ doc[FRuns[3]].n = 1
    /\ doc[FRuns[2]].n = 2

(***************************************************************************)
(* C12: a parse call that queued no image leaves finalize with nothing to  *)
(* do: nothing is fetched, no page break or image section is added, and    *)
(* the paragraphs already written and the assembler's image fields stay.   *)
(***************************************************************************)
SectionCmds == {"page_break", "image_section", "picture", "caption", "image_error"}

C12_EmptyQueueNoFinalize ==
    [][(op' = "parse_text" /\ Placeholders(trace') = 0) =>
          /\ fetches' = 0
          /\ fetchLog' = fetchLog
          /\ last_fetch' = last_fetch
          /\ image_counter' = image_counter
          /\ image_obj' = image_obj
          /\ IsPrefix(heap, heap')
          /\ IsPrefix(doc, doc')
          /\ \A p \in (Len(doc) + 1)..Len(doc') : doc'[p].cmd \notin SectionCmds]_vars

\* A second call of one unmapped image directive, after a call that fetched:
\* the document still has the one image section of the first call.
C12_Witness ==
    /\ op = "parse_text" /\ calls = 2
    /\ Len(trace) = 1 /\ trace[1].parsed = <<"image">> /\ trace[1].quiet
    /\ fetches = 0
    /\ Len(fetchLog) = 1
    /\ Cardinality(ImageSections) = 1
    /\ doc[Len(doc)].cmd \in SectionCmds

(***************************************************************************)
(* Decision and predicate lines of the trace, as the claims on branch      *)
(* labels see them: the directive of a line, the value set of a decision,  *)
(* the option a decision maps a value to, a line's header paragraph.       *)
(***************************************************************************)
Directive(e) == Strip(e.raw)[1]

IsDecision(e) == e.parsed = <<"decision">>

IsPredicate(e) == e.parsed = <<"predicate">>

Pairs(tok) ==
    1..(IF Len(tok.a) < Len(tok.b) THEN Len(tok.a) ELSE Len(tok.b))

ValueSet(tok) == {StripStr(tok.b[i]) : i \in Pairs(tok)}

OptionFor(tok, v) ==
    LET i == CHOOSE i \in Pairs(tok) :
                /\ StripStr(tok.b[i]) = v
                /\ \A j \in Pairs(tok) : j > i => StripStr(tok.b[j]) # v
    IN  StripStr(tok.a[i])

RefSet(tok) == {tok.a[i] : i \in 1..Len(tok.a)}

Header(label) == <<Para("predicate_header", label, 0)>>

\* Line k is a decision and line k + 1 of the same call a predicate.
Follows(k) ==
    /\ k + 1 \in 1..Len(trace)
    /\ IsDecision(trace[k])
    /\ IsPredicate(trace[k + 1])

(***************************************************************************)
(* C13: a predicate right after a decision with value set V renders the    *)
(* single-option label of the option mapped to v when it references the    *)
(* one value v of V, and the merge label when it references all of V.  As  *)
(* claimed, also when V has one value; as amended, when V has two or more  *)
(* (a V of one value gets the single-option label).                        *)
(***************************************************************************)
C13_LabelsOriginal ==
    \A k \in 1..Len(trace) :
        Follows(k) =>
            LET dec == Directive(trace[k])
                refs == Directive(trace[k + 1]).a
            IN  /\ (Len(refs) = 1 /\ refs[1] \in ValueSet(dec)) =>
                      trace[k + 1].added = Header(<<OptionFor(dec, refs[1])>>)
                /\ (Len(refs) = Cardinality(RefSet(Directive(trace[k + 1])))
                    /\ RefSet(Directive(trace[k + 1])) = ValueSet(dec)) =>
                      trace[k + 1].added = Header(<<MergeLabel>>)

C13_Labels ==
    \A k \in 1..Len(trace) :
        Follows(k) =>
            LET dec == Directive(trace[k])
                refs == Directive(trace[k + 1]).a
            IN  /\ (Len(refs) = 1 /\ refs[1] \in ValueSet(dec)) =>
                      trace[k + 1].added = Header(<<OptionFor(dec, refs[1])>>)
                /\ (Len(refs) = Cardinality(RefSet(Directive(trace[k + 1])))
                    /\ RefSet(Directive(trace[k + 1])) = ValueSet(dec)
                    /\ Cardinality(ValueSet(dec)) >= 2) =>
                      trace[k + 1].added = Header(<<MergeLabel>>)

\* A decision of the values 1 and 2, then a predicate referencing both,
\* rendered as the merge label.
C13_Witness ==
    /\ op = "parse_text"
    /\ Len(trace) = 2 /\ Follows(1)
    /\ ValueSet(Directive(trace[1])) = {"1", "2"}
    /\ Directive(trace[2]).a = <<"1", "2">>
    /\ trace[2].added = Header(<<MergeLabel>>)
    /\ Last(doc) = Para("predicate_header", <<MergeLabel>>, 0)

(***************************************************************************)
(* C14: a predicate parsed while no decision is active (no decision line   *)
(* since initialize_all) is consumed: parse_line returns true, nothing is  *)
(* rendered, nothing is appended to skipped_lines, nothing is raised.      *)
(***************************************************************************)
NoDecisionBefore(k) == \A j \in 1..(k - 1) : ~IsDecision(trace[j])

C14_PredicateWithoutDecision ==
    \A k \in 1..Len(trace) :
        (Directive(trace[k]).t = "pred" /\ NoDecisionBefore(k)) =>
            /\ IsPredicate(trace[k])
            /\ trace[k].res = "true"
            /\ trace[k].quiet
            /\ trace[k].added = << >>
            /\ trace[k].appended = << >>

\* A call of two predicates and no decision left the document and
\* skipped_lines empty and recorded the last predicate.
C14_Witness ==
    /\ op = "parse_text"
    /\ Len(trace) = 2
    /\ IsPredicate(trace[1]) /\ IsPredicate(trace[2])
    /\ trace[2].res = "true"
    /\ doc = << >> /\ skipped_lines = << >>
    /\ dstate.predicate # << >>

(***************************************************************************)
(* C15: a predicate that references a value absent from the current,       *)
(* non-empty decision map raises nothing and renders the absent value as   *)
(* the label "option <value>", alone or among several references.          *)
(***************************************************************************)
ShowsPlaceholder(label, r) ==
    \E i \in 1..(Len(label) - 1) : label[i] = "option" /\ label[i + 1] = r

C15_AbsentValueLabel ==
    \A k \in 2..Len(trace) :
        (IsPredicate(trace[k]) /\ trace[k - 1].dstate.options # EmptyMap) =>
            \A r \in RefSet(Directive(trace[k])) :
                r \notin DOMAIN trace[k - 1].dstate.options =>
                    /\ trace[k].res = "true"
                    /\ Len(trace[k].added) = 1
                    /\ trace[k].added[1].cmd = "predicate_header"
                    /\ ShowsPlaceholder(trace[k].added[1].a, r)

(***************************************************************************)
(* C16: a decision line replaces the decision map by value_i -> option_i   *)
(* (both trimmed) for i up to the length of the shorter list, keeps        *)
(* nothing of the map before, sets the current predicate to none, renders  *)
(* nothing and is handled.                                                 *)
(***************************************************************************)
C16_DecisionReplacesMap ==
    \A k \in 1..Len(trace) :
        Directive(trace[k]).t = "dec" =>
            LET dec == Directive(trace[k])
            IN  /\ IsDecision(trace[k])
                /\ trace[k].res = "true"
                /\ trace[k].quiet
                /\ trace[k].added = << >>
                /\ trace[k].appended = << >>
                /\ trace[k].dstate.predicate = << >>
                /\ trace[k].dstate.options
                      = [v \in ValueSet(dec) |-> OptionFor(dec, v)]

\* A decision of the values 3 and 4 with one option, a predicate, then a
\* decision of three options and two values: the map is 1 -> A, 2 -> B and
\* no predicate is current.
C16_Witness ==
    /\ op = "parse_text"
    /\ Len(trace) = 3
    /\ IsDecision(trace[1]) /\ DOMAIN trace[1].dstate.options = {"3"}
    /\ IsPredicate(trace[2]) /\ trace[2].dstate.predicate # << >>
    /\ IsDecision(trace[3]) /\ Len(Directive(trace[3]).a) = 3
    /\ dstate.options = [v \in {"1", "2"} |-> IF v = "1" THEN "A" ELSE "B"]
    /\ dstate.predicate = << >>
    /\ skipped_lines = << >>

(***************************************************************************)
(* C17: a parse_text call with a section title puts n blank paragraphs     *)
(* (n the override when given, else the configured spacer_lines; none when *)
(* n <= 0) right before its title exactly when an earlier call of the      *)
(* session already had a title; the first titled call gets no blank        *)
(* paragraph before its title.                                             *)
(***************************************************************************)
TitledCall(spacer) ==
    DoParseText(SectionLines, {"Chapter"}, {spacer}, {""}, {MapA})

HasSection == \E p \in 1..Len(doc) : doc[p].cmd = "title"

\* The number of blank paragraphs due before the title of a call.
Spacers(spacer) ==
    LET n == IF spacer = None THEN DefaultSpacerLines ELSE spacer[1]
    IN  IF HasSection /\ n > 0 THEN n ELSE 0

C17_Spacers ==
    [][\A spacer \in {None, <<-1>>, <<0>>, <<1>>} :
          TitledCall(spacer) =>
              /\ IsPrefix(doc, doc')
              /\ Len(doc') >= Len(doc) + Spacers(spacer) + 1
              /\ \A i \in 1..Spacers(spacer) :
                    doc'[Len(doc) + i] = Para("blank", << >>, 0)
              /\ doc'[Len(doc) + Spacers(spacer) + 1]
                    = Para("title", <<"Chapter">>, 0)]_vars

\* A second titled call: title, header, the two default blank paragraphs,
\* title.
C17_Witness ==
    /\ calls = 2
    /\ Len(doc) = 5
    /\ doc[1].cmd = "title"
    /\ doc[2].cmd = "predicate_header"
    /\ doc[3].cmd = "blank" /\ doc[4].cmd = "blank"
    /\ doc[5].cmd = "title"

(***************************************************************************)
(* C18: an image line is always handled.  With its identifier in the       *)
(* image map it takes the next local index, adds one placeholder showing   *)
(* it, records the placeholder under it and appends (index, url) to the    *)
(* queue; with its identifier absent it adds nothing and leaves counter,   *)
(* placeholders and queue as they were.  parse fetches nothing: the        *)
(* fetches of the call are those of its finalize, one per queue entry.     *)
(***************************************************************************)
Hit(e, map) == StripStr(Directive(e).a[1]) \in DOMAIN map

HitsUpTo(tr, k, map) == Cardinality({j \in 1..k : Hit(tr[j], map)})

NthHit(tr, h, map) ==
    CHOOSE k \in 1..Len(tr) : Hit(tr[k], map) /\ HitsUpTo(tr, k, map) = h

C18_ImageRule ==
    [][op' = "parse_text" =>
          LET tr == trace'
              map == image_map'
              obj == heap'[istate'.obj]
              H == HitsUpTo(tr, Len(tr), map)
          IN  /\ \A k \in 1..Len(tr) :
                    /\ tr[k].parsed = <<"image">>
                    /\ tr[k].res = "true"
                    /\ tr[k].appended = << >>
                    /\ Hit(tr[k], map) =>
                          tr[k].added = <<Para("image_reference", << >>,
                                               HitsUpTo(tr, k, map))>>
                    /\ ~Hit(tr[k], map) =>
                          tr[k].added = << >> /\ tr[k].state_same
              /\ istate'.image_counter = H
              /\ obj.queue = [h \in 1..H |->
                    [idx |-> h,
                     url |-> map[StripStr(Directive(tr[NthHit(tr, h, map)]).a[1])]]]
              /\ DOMAIN obj.runs = 1..H
              /\ \A h \in 1..H :
                    /\ doc'[obj.runs[h]].cmd = "image_reference"
                    /\ obj.runs[h] > Len(doc)
                    /\ \A g \in 1..(h - 1) : obj.runs[g] < obj.runs[h]
              /\ Len(fetchLog') = Len(fetchLog) + H
              /\ \A h \in 1..H :
                    fetchLog'[Len(fetchLog) + h].url = obj.queue[h].url]_vars

\* A call of a mapped, an unmapped and a mapped image line: the second
\* mapped line has local index 2 and the queue holds url1, url2.
C18_Witness ==
    /\ op = "parse_text"
    /\ Len(trace) = 3
    /\ trace[1].added # << >>
    /\ trace[2].added = << >> /\ trace[2].res = "true"
    /\ trace[3].added = <<Para("image_reference", << >>, 2)>>
    /\ istate.image_counter = 2
    /\ Len(heap[istate.obj].queue) = 2
    /\ heap[istate.obj].queue[1].url = "url1"
    /\ heap[istate.obj].queue[2] = [idx |-> 2, url |-> "url2"]

(***************************************************************************)
(* C19: a disabled parser takes no part in a parse call: no line is given  *)
(* to it, its can_parse, parse, initialize and finalize are not called,    *)
(* and a line it would have claimed goes to the next enabled parser that   *)
(* matches, or to skipped_lines.  disable_parser and enable_parser change  *)
(* the enabled flag of one parser and nothing else: the list, the          *)
(* priorities, the parser states, the document.                            *)
(***************************************************************************)
Toggled == {i \in 1..Len(parsers) : parsers'[i].enabled # parsers[i].enabled}

Idle(kind, tr, hk) ==
    /\ \A k \in 1..Len(tr) :
          /\ tr[k].parsed # <<kind>>
          /\ \A p \in 1..Len(tr[k].probes) : tr[k].probes[p] # kind
    /\ \A h \in 1..Len(hk) : hk[h][2] # kind

\* The line of entry e went to the first enabled parser matching it, or to
\* skipped_lines.
PassedOn(e) ==
    LET line == Strip(e.raw)
    IN  IF Matching(line) = {}
        THEN e.parsed = << >> /\ e.appended = <<e.raw>>
        ELSE \E i \in Matching(line) :
                /\ e.parsed = <<parsers[i].kind>>
                /\ \A j \in Matching(line) \ {i} : Before(i, j)

C19_DisabledIdle ==
    [][/\ op' \in {"enable_parser", "disable_parser"} =>
            /\ Len(parsers') = Len(parsers)
            /\ \A i \in 1..Len(parsers) :
                  /\ parsers'[i].kind = parsers[i].kind
                  /\ parsers'[i].priority = parsers[i].priority
                  /\ parsers'[i].seq = parsers[i].seq
            /\ Cardinality(Toggled) <= 1
            /\ \A i \in Toggled :
                  parsers'[i].enabled = (op' = "enable_parser")
            /\ dstate' = dstate /\ istate' = istate /\ heap' = heap
            /\ doc' = doc /\ skipped_lines' = skipped_lines
            /\ image_map' = image_map /\ image_obj' = image_obj
       /\ op' = "parse_text" =>
            /\ parsers' = parsers
            /\ \A k \in 1..Len(trace') : PassedOn(trace'[k])
            /\ \A i \in 1..Len(parsers) :
                  ~parsers[i].enabled =>
                      /\ Idle(parsers[i].kind, trace', hooks')
                      /\ parsers[i].kind = "image" =>
                            istate' = istate /\ fetchLog' = fetchLog]_vars

\* With the image parser disabled after a call that queued an image, a line
\* holding an image and a predicate directive went to the predicate parser;
\* the image state of the first call is still there.
C19_Witness ==
    /\ op = "parse_text" /\ calls = 2
    /\ \E i \in 1..Len(parsers) :
          parsers[i].kind = "image" /\ ~parsers[i].enabled
    /\ Len(trace) = 1
    /\ HasTok(Strip(trace[1].raw), {"img"})
    /\ trace[1].parsed = <<"predicate">>
    /\ Idle("image", trace, hooks)
    /\ istate.image_counter = 1
    /\ Len(fetchLog) = 1

(***************************************************************************)
(* C20: a line the sound parser claims is handled and never appended to    *)
(* skipped_lines, rendered or not; the text taken from it (the key of a    *)
(* directive, the inside of a stage direction) is rendered as a cue        *)
(* exactly when it is not a bare resource identifier.                      *)
(***************************************************************************)
\* The sample texts of the shape: optional $, then letters, digits, _ - / $.
BareIdentifiers == {"$bgm_001", "sound/rain"}

\* The text the sound parser takes from a line, as <<text>>; << >> when the
\* line is a directive without key.
CueText(e) ==
    LET tok == Directive(e)
    IN  IF tok.t = "stage" THEN <<tok.a[1]>>
        ELSE IF tok.b # << >> THEN <<tok.b[1]>>
        ELSE << >>

C20_SoundRule ==
    \A k \in 1..Len(trace) :
        Directive(trace[k]).t \in {"snd", "stage"} =>
            /\ trace[k].parsed = <<"sound">>
            /\ trace[k].res = "true"
            /\ trace[k].appended = << >>
            /\ CueText(trace[k]) # << >> =>
                  IF CueText(trace[k])[1] \in BareIdentifiers
                  THEN trace[k].added = << >>
                  ELSE trace[k].added
                          = <<Para("sound_effect", CueText(trace[k]), 0)>>

\* A call of a directive whose key is $bgm_001, a stage direction holding a
\* resource id and the stage direction "distant thunder": one cue rendered,
\* nothing skipped.
C20_Witness ==
    /\ op = "parse_text"
    /\ Len(trace) = 3
    /\ CueText(trace[1]) = <<"$bgm_001">> /\ trace[1].quiet
    /\ CueText(trace[2]) = <<"sound/rain">> /\ trace[2].quiet
    /\ CueText(trace[3]) = <<"distant thunder">>
    /\ doc = <<Para("sound_effect", <<"distant thunder">>, 0)>>
    /\ skipped_lines = << >>

(***************************************************************************)
(* C21: initialize_all and finalize_all of a parse call each call the hook *)
(* exactly once on every parser enabled at the call, in ascending priority *)
(* order, and never on a disabled parser; initialize_all runs before the   *)
(* first line is dispatched and finalize_all after the last one.           *)
(***************************************************************************)
C21_HooksOnce ==
    op = "parse_text" =>
        LET ks == EnabledKinds(Len(parsers))
            n == Len(ks)
        IN  /\ Len(hooks) = 2 * n
            /\ \A i \in 1..n :
                  /\ hooks[i] = <<"initialize", ks[i], 0>>
                  /\ hooks[n + i] = <<"finalize", ks[i], Len(trace)>>
            /\ \A i, j \in 1..n : i # j => ks[i] # ks[j]
            /\ \A i, j \in 1..Len(parsers) :
                  i < j => parsers[i].priority <= parsers[j].priority

\* A call of two lines with the image and the decision parser disabled:
\* seven initialize calls before the lines, seven finalize calls after them.
C21_Witness ==
    /\ op = "parse_text"
    /\ Len(trace) = 2
    /\ \E i, j \in 1..Len(parsers) :
          /\ parsers[i].kind = "image" /\ ~parsers[i].enabled
          /\ parsers[j].kind = "decision" /\ ~parsers[j].enabled
    /\ Len(hooks) = 14
    /\ hooks[1] = <<"initialize", "control", 0>>
    /\ hooks[2] = <<"initialize", "predicate", 0>>
    /\ hooks[14] = <<"finalize", "narration", 2>>

(***************************************************************************)
(* SpecBlank: a session over empty and whitespace-only lines among         *)
(* decision and image directives.                                          *)
(***************************************************************************)
SpecBlank ==
    Init /\ [][DoParseText({L_blank, Raw(<< >>, "none"), L_dec, L_img1},
                           {""}, {None}, {""}, {MapA})]_vars

(***************************************************************************)
(* C22: parse_line on an empty or whitespace-only line returns false       *)
(* without calling can_parse or parse of any parser; it adds no paragraph  *)
(* and changes no parser state.                                            *)
(***************************************************************************)
C22_BlankLine ==
    \A k \in 1..Len(trace) :
        Strip(trace[k].raw) = << >> =>
            /\ trace[k].res = "false"
            /\ trace[k].probes = << >>
            /\ trace[k].parsed = << >>
            /\ trace[k].quiet
            /\ trace[k].added = << >>
            /\ trace[k].state_same

\* An image line, then a whitespace-only and an empty line: both unhandled,
\* the document holds only the placeholder and the image section.
C22_Witness ==
    /\ op = "parse_text"
    /\ Len(trace) = 3
    /\ trace[1].parsed = <<"image">> /\ trace[1].added # << >>
    /\ trace[2].raw = L_blank /\ trace[2].res = "false"
    /\ trace[3].raw = Raw(<< >>, "none") /\ trace[3].res = "false"
    /\ trace[3].probes = << >>
    /\ istate.image_counter = 1
    /\ doc[1].cmd = "image_reference"

(***************************************************************************)
(* C23: each parser's entry of the shared state is written only by the     *)
(* parser that owns it.  A line leaves the decision state entry as it was  *)
(* unless the decision parser parsed it (the predicate parser only reads   *)
(* the entry), and leaves the image state entry as it was unless the image *)
(* parser parsed it.                                                       *)
(***************************************************************************)
C23_StateOwnership ==
    \A k \in 1..Len(trace) :
        /\ trace[k].parsed # <<"decision">> => trace[k].decision_same
        /\ trace[k].parsed # <<"image">> => trace[k].image_same

(***************************************************************************)
(* SpecOrder: a session of parse_text calls, with and without a section    *)
(* title, over an image line and a subtitle line.                          *)
(***************************************************************************)
SpecOrder ==
    Init /\ [][DoParseText({L_img1, Raw(<<Tok("sub", <<"s1">>, None)>>, "none")},
                           {"", "Chapter"}, {None}, {""}, {MapA})]_vars

(***************************************************************************)
(* C24: a parse_text call does its steps in one order: the image map is    *)
(* set, initialize_all runs, the blank paragraphs and the title are        *)
(* written, the lines are dispatched in input order, finalize_all runs.    *)
(* So the images are finalized once in the call, and the image section of  *)
(* a call comes after everything else the call wrote and before whatever   *)
(* the next call writes.                                                   *)
(***************************************************************************)
\* The paragraphs the title block of a call adds.
HeadParas(title) ==
    IF title = "" THEN << >>
    ELSE (IF HasSection THEN [i \in 1..DefaultSpacerLines |-> Para("blank", << >>, 0)]
          ELSE << >>) \o <<Para("title", <<title>>, 0)>>

\* The paragraphs the lines of a trace added, in the order of the lines.
RECURSIVE Added(_)
Added(tr) == IF tr = << >> THEN << >> ELSE Head(tr).added \o Added(Tail(tr))

\* Paragraphs without the number a placeholder shows.
Unnumbered(paras) ==
    [p \in 1..Len(paras) |->
        IF paras[p].cmd = "image_reference" THEN [paras[p] EXCEPT !.n = 0]
        ELSE paras[p]]

C25_FailureNotDeduplicated ==
    Fetched =>
        \A i \in 1..Len(FQueue) :
            ~FOuts[i].ok =>
                LET f == FIndexMap[FQueue[i].idx]
                IN  /\ f = 1 + Cardinality({j \in 1..(i - 1) : Opens(j)})
                    /\ \A j \in 1..Len(FQueue) :
                          j # i => FIndexMap[FQueue[j].idx] # f
                    /\ Cardinality({e \in 1..Len(FEntries) :
                                       FEntries[e].final_index = f}) = 1
                    /\ \A e \in 1..Len(FEntries) :
                          FEntries[e].final_index = f =>
                              /\ FEntries[e].type = "error"
                              /\ FEntries[e].image_url = FQueue[i].url
                    /\ Cardinality({p \in 1..Len(FTail) : FTail[p].n = f}) = 1
                    /\ \A p \in 1..Len(FTail) :
                          FTail[p].n = f => FTail[p].cmd = "image_error"

\* Three entries of one URL whose fetch succeeds, fails and succeeds with
\* the same content: the failure has index 2 to itself, the third entry
\* shares index 1 with the first.
C25_Witness ==
    /\ Fetched
    /\ Len(FQueue) = 3
    /\ FQueue[1].url = FQueue[2].url /\ FQueue[2].url = FQueue[3].url
    /\ FOuts[1].ok /\ ~FOuts[2].ok /\ SameContent(1, 3)
    /\ FIndexMap[FQueue[2].idx] = 2
    /\ FIndexMap[FQueue[3].idx] = 1
    /\ Len(FTail) = 5
    /\ FTail[5].cmd = "image_error"

(***************************************************************************)
(* C26: a finalize over a non-empty queue maps every local index of the    *)
(* queue to a final index; the final indices are exactly 1..k, k the       *)
(* number of output entries, which is the number of distinct contents      *)
(* fetched plus the number of failed fetches; an entry that opens a final  *)
(* index gets one larger than those of all entries before it; no entry's   *)
(* final index is larger than its local index.                             *)
(***************************************************************************)
FinalOf(i) == FIndexMap[FQueue[i].idx]

C26_FinalIndices ==
    Fetched =>
        LET k == Len(FEntries)
            n == Len(FQueue)
        IN  /\ n > 0
            /\ DOMAIN FIndexMap = {FQueue[i].idx : i \in 1..n}
            /\ {FinalOf(i) : i \in 1..n} = 1..k
            /\ \A e \in 1..k : FEntries[e].final_index = e
            /\ k = Cardinality({Sha256(FOuts[i].v) : i \in {j \in 1..n : FOuts[j].ok}})
                   + Cardinality({i \in 1..n : ~FOuts[i].ok})
            /\ \A i \in 1..n :
                  /\ Opens(i) => \A j \in 1..(i - 1) : FinalOf(j) < FinalOf(i)
                  /\ ~Opens(i) => \E j \in 1..(i - 1) : FinalOf(j) = FinalOf(i)
                  /\ FinalOf(i) <= FQueue[i].idx

\* Three entries fetched as content A, content B, content A again: final
\* indices 1, 2, 1 and two output entries.
C26_Witness ==
    /\ Fetched
    /\ Len(FQueue) = 3
    /\ FOuts[1].ok /\ FOuts[2].ok /\ ~SameContent(1, 2) /\ SameContent(1, 3)
    /\ FinalOf(1) = 1 /\ FinalOf(2) = 2 /\ FinalOf(3) = 1
    /\ FQueue[3].idx = 3
    /\ Len(FEntries) = 2

(***************************************************************************)
(* C27: from its initialize on, after any lines parsed, the image state    *)
(* has counter = length of the queue = number of recorded placeholders;    *)
(* the local indices of the queue are 1..counter in increasing order and   *)
(* the keys of the placeholder map are exactly 1..counter.                 *)
(***************************************************************************)
C27_ImageState ==
    istate.tag = "full" =>
        LET obj == heap[istate.obj]
            c == istate.image_counter
        IN  /\ c >= 0
            /\ Len(obj.queue) = c
            /\ Cardinality(DOMAIN obj.runs) = c
            /\ DOMAIN obj.runs = 1..c
            /\ \A i \in 1..c : obj.queue[i].idx = i
            /\ op = "parse_text" => c = Placeholders(trace)

\* A second call of two mapped image lines after a call of one: the state
\* of the second call counts 2 and holds the local indices 1, 2.
C27_Witness ==
    /\ op = "parse_text" /\ calls = 2
    /\ Len(fetchLog) = 3
    /\ Len(trace) = 2
    /\ istate.image_counter = 2
    /\ heap[istate.obj].queue[2].idx = 2
    /\ DOMAIN heap[istate.obj].runs = {1, 2}
    /\ Len(heap[istate.obj - 1].queue) = 1

(***************************************************************************)
(* SpecTitle: a session of parse_text calls with no main title or one of   *)
(* two, and of add_main_title calls, over a subtitle line and a line no    *)
(* parser matches.                                                         *)
(***************************************************************************)
SpecTitle ==
    Init /\ [][\/ DoParseText({Raw(<<Tok("sub", <<"s1">>, None)>>, "none"), L_garbage},
                              {""}, {None}, {"", "T1", "T2"}, {MapA})
               \/ DoAddMainTitle({"T1", "T2"})]_vars

(***************************************************************************)
(* C28: the document holds at most one main title.  The first request      *)
(* with a non-empty text (by parse_text or by add_main_title) writes it;   *)
(* a request with an empty text and every request after the first one,     *)
(* with the same or another text, writes no main title.                    *)
(***************************************************************************)
MainTitles(d) == {p \in 1..Len(d) : d[p].cmd = "main_title"}

\* A request for the main title text, by either operation.
TitleRequest(text) ==
    \/ DoAddMainTitle({text})
    \/ DoParseText({Raw(<<Tok("sub", <<"s1">>, None)>>, "none"), L_garbage},
                   {""}, {None}, {text}, {MapA})

C28_OneMainTitle ==
    [][/\ Cardinality(MainTitles(doc')) <= 1
       /\ IsPrefix(doc, doc')
       /\ MainTitles(doc) # {} => MainTitles(doc') = MainTitles(doc)
       /\ TitleRequest("") => MainTitles(doc') = MainTitles(doc)
       /\ \A text \in {"T1", "T2"} :
             (TitleRequest(text) /\ MainTitles(doc) = {}) =>
                 /\ MainTitles(doc') = {Len(doc) + 1}
                 /\ doc'[Len(doc) + 1] = Para("main_title", <<text>>, 0)]_vars

\* A first parse_text call wrote one paragraph, a second the main title and
\* two paragraphs; an add_main_title call with a text then wrote nothing.
C28_Witness ==
    /\ op = "add_main_title"
    /\ calls = 2
    /\ Len(doc) = 4
    /\ doc[2].cmd = "main_title"
    /\ MainTitles(doc) = {2}
    /\ doc[4].cmd = "narration"

(***************************************************************************)
(* SpecMaps: a session of parse_text calls given no image map (or an empty *)
(* one: both are false to the test of parse_lines) or one of two maps that *)
(* share an identifier, over two image lines.                              *)
(***************************************************************************)
SpecMaps ==
    Init /\ [][DoParseText({L_img1, L_img2}, {""}, {None}, {""},
                           {EmptyMap, MapA, MapB})]_vars

(***************************************************************************)
(* C29: the active image map persists across parse calls.  A call given a  *)
(* non-empty map makes it the active map, whole, with nothing kept of the  *)
(* map before; a call given no map or an empty map leaves the active map   *)
(* as it was.  The image lines of a call are resolved against the map      *)
(* active after this step.                                                 *)
(***************************************************************************)
C29_MapPersists ==
    [][op' = "parse_text" =>
          LET active == IF given_map' = EmptyMap THEN image_map ELSE given_map'
              tr == trace'
              H == HitsUpTo(tr, Len(tr), active)
          IN  /\ image_map' = active
              /\ \A k \in 1..Len(tr) :
                    /\ tr[k].res = "true"
                    /\ Hit(tr[k], active) = (tr[k].added # << >>)
              /\ heap'[istate'.obj].queue = [h \in 1..H |->
                    [idx |-> h,
                     url |-> active[StripStr(
                         Directive(tr[NthHit(tr, h, active)]).a[1])]]]]_vars

\* A first call was given the map of i1 and i3, a second call no map: its
\* line of i2 added nothing and its line of i1 was queued with url3.
C29_Witness ==
    /\ op = "parse_text" /\ calls = 2
    /\ given_map = EmptyMap
    /\ image_map = MapB
    /\ Len(trace) = 2
    /\ trace[1].raw = L_img2 /\ trace[1].added = << >>
    /\ trace[2].raw = L_img1 /\ trace[2].added # << >>
    /\ heap[istate.obj].queue = <<[idx |-> 1, url |-> "url3"]>>

(***************************************************************************)
(* C30: a parse call extends skipped_lines by one entry for each of its    *)
(* lines whose parse_line returned false, in input order, and by nothing   *)
(* else.  A line is recorded exactly when its dispatch returned false:     *)
(* that includes blank lines and lines whose parser (the control parser)   *)
(* returned false; a line whose dispatch returned true is not recorded.    *)
(***************************************************************************)
\* The number of lines among the first k of a trace whose result was false.
FalseUpTo(tr, k) == Cardinality({j \in 1..k : tr[j].res = "false"})

====
